---- MODULE Spec2Model ----
(***************************************************************************)
(* md2googleslides: the markdown-token compiler (parser/extract_slides.ts, *)
(* parser/env.ts), the layout classifier (layout/match_layout.ts) and the  *)
(* generation pipeline (slide_generator.ts), as state machines.            *)
(*                                                                         *)
(*   Spec        the compiler: extractSlides consuming a token stream       *)
(*   SpecLayout  the classifier: matchLayout applied to a slide             *)
(*   SpecGen     the pipeline: SlideGenerator.generateFromMarkdown          *)
(*   SpecContent the content pass: GenericLayout.appendContentRequests      *)
(*   SpecPack    the image packing: GenericLayout.appendCreateImageRequests *)
(*   SpecNotes   the compiler with speaker notes: fullTokenRules html_block *)
(*   SpecTable   the steps of SpecNotes on documents with tables            *)
(*   SpecImage   the steps of SpecNotes on documents with images            *)
(*   SpecBody    the steps of SpecNotes on body text, titles and tables     *)
(*   SpecRun     the pipeline on a deck that already has pages              *)
(*   SpecCss     the style sheets: updateStyleDefinition                    *)
(***************************************************************************)
EXTENDS Naturals, Integers, Sequences, FiniteSets, TLC

VARIABLES
    \* ---- compiler (extract_slides.ts / env.ts)
    context,      \* the Context object of the running compile
    ruleSet,      \* the module-level `ruleSet` variable
    index,        \* forEach index of the next token of the stream
    token,        \* the token handed to processMarkdownToken last
    returned,     \* what extractSlides returned (Undefined until it returns)
    pc,           \* "compiling" | "done" | "error"
    open,         \* tokenizer: the containers the stream has open
    children,     \* the children of the inline token that are still to process
    stream,       \* history: the types of the tokens forEach has visited (a
                  \* column marker as "paragraph_open.column")
    \* ---- classifier (match_layout.ts)
    lslide,       \* the slide handed to matchLayout
    lpresentation,\* the presentation handed to matchLayout
    lresult,      \* the layout name returned, "ERROR" when it threw
    lpc,          \* "ready" | "matched"
    \* ---- pipeline (slide_generator.ts)
    gpc,          \* the statement generateFromMarkdown is at
    gresult,      \* the promise generateFromMarkdown returned
    gslides,      \* this.slides
    gallowUpload, \* this.allowUpload
    gimages,      \* the ImageDefinitions of this.slides
    gpending,     \* images whose promise of the running stage is unsettled
    gpresentation,\* this.presentation: the local copy of the document
    gremote,      \* the document held by the remote service
    gbatch,       \* the batch handed to updatePresentation last
    glog,         \* the external calls made, in order
    \* ---- content pass (layout/generic_layout.ts)
    kslide,       \* this.slide of the layout object
    kslide0,      \* history: this.slide as the layout object was constructed
    kpresentation,\* this.presentation of the layout object
    krequests,    \* the requests array handed to appendContentRequests
    kpc,          \* "ready" | "done" | "thrown"
    \* ---- image packing (layout/generic_layout.ts)
    pimages,      \* the images handed to appendCreateImageRequests
    pbox,         \* the bounding box the images are packed into
    prequests,    \* the requests array handed to appendCreateImageRequests
    ppc,          \* "ready" | "done"
    \* ---- speaker notes (parser/extract_slides.ts, html_block)
    nstack,       \* the running calls of processTokens and of the inline loop
    nruleSet,     \* the module-level `ruleSet` variable
    npc,          \* "compiling" | "done" | "error"
    nlog,         \* history: the tokens processed, with the rule set in force
    \* ---- style sheets (parser/css.ts)
    scss,         \* the CSS rule handed to updateStyleDefinition, the loop index
    sstyle,       \* the style object handed to it
    spc           \* "running" | "returned style" | "returned undefined"

cvars == <<context, ruleSet, index, token, returned, pc, open, children, stream>>
lvars == <<lslide, lpresentation, lresult, lpc>>
gvars == <<gpc, gresult, gslides, gallowUpload, gimages, gpending, gpresentation,
          gremote, gbatch, glog>>
kvars == <<kslide, kslide0, kpresentation, krequests, kpc>>
pvars == <<pimages, pbox, prequests, ppc>>
nvars == <<nstack, nruleSet, npc, nlog>>
svars == <<scss, sstyle, spc>>
vars == <<cvars, lvars, gvars, kvars, pvars, nvars, svars>>

\* JavaScript's undefined: an absent object, and an absent string
Undefined == [undefined |-> TRUE]
UndefinedString == "<undefined>"

(***************************************************************************)
(* Bounds of the model                                                     *)
(***************************************************************************)
MaxTokens == 11    \* length of the token stream
MaxBodies == 3     \* body regions of a slide handed to matchLayout
MaxTables == 2     \* tables of a slide handed to matchLayout
MaxImages == 2     \* images of the deck handed to the pipeline
MaxSlides == 2     \* slides of the deck handed to the pipeline
MaxPages == 1      \* pages the target document holds before the run

(***************************************************************************)
(* slides.ts: the compiled model                                           *)
(***************************************************************************)
\* TextDefinition as startTextBlock creates it
EmptyText == [rawText |-> <<>>, textRuns |-> <<>>, listMarkers |-> <<>>, big |-> FALSE]

\* SlideDefinition as startSlide creates it (objectId is a fresh uuid, left out)
EmptySlide ==
    [customLayout |-> UndefinedString, title |-> Undefined, subtitle |-> Undefined,
     backgroundImage |-> Undefined, bodies |-> <<>>, tables |-> <<>>,
     notes |-> Undefined]

(***************************************************************************)
(* parser/env.ts: the Context class                                        *)
(*                                                                         *)
(* A style object is modelled as [payload, start] (and end, once sealed):  *)
(* payload is the object without its start and end keys, a function from    *)
(* property names to values.  Two history fields ride along and are read   *)
(* by no operation: `own`, the newStyle the scope was opened with, and      *)
(* `stale`, set once context.text is replaced while the scope is open.     *)
(***************************************************************************)
\* what a handler leaves behind when it throws (an Error or a failed assert)
Thrown == [thrown |-> TRUE]

\* extend({}, a, b): the keys of a, then the keys of b copied over them
Extend(a, b) ==
    [k \in (DOMAIN a) \cup (DOMAIN b) |-> IF k \in DOMAIN b THEN b[k] ELSE a[k]]

\* `styles = [{}]`
BaseStyle == [payload |-> <<>>, start |-> 0, own |-> <<>>, stale |-> FALSE]

\* the Context right after its constructor ran (field initialisers, startSlide)
NewContext ==
    [slides |-> <<>>, currentSlide |-> EmptySlide, text |-> Undefined,
     styles |-> <<BaseStyle>>, markerParagraph |-> FALSE, row |-> <<>>,
     table |-> Undefined, list |-> Undefined, inlineHtmlContext |-> UndefinedString,
     images |-> <<>>, videos |-> <<>>]

\* history only: every open scope has seen context.text replaced
MarkStale(c) ==
    [c EXCEPT !.styles = [i \in DOMAIN @ |-> [@[i] EXCEPT !.stale = TRUE]],
              !.list = IF @ = Undefined THEN @ ELSE [@ EXCEPT !.stale = TRUE]]

startTextBlock(c) ==
    IF c = Thrown THEN Thrown
    ELSE [MarkStale(c) EXCEPT !.text = EmptyText]

appendText(c, content) ==
    IF c = Thrown THEN Thrown
    ELSE IF c.text = Undefined THEN Thrown    \* assert(this.text)
    ELSE [c EXCEPT !.text.rawText = @ \o content]

\* String.prototype.trim: white space is stripped from both ends
\* the character U+000B (vertical tab)
VT == "<VT>"

WhiteSpace == {" ", "\t", "\n", VT}

Trim(str) ==
    LET black == {i \in 1..Len(str) : str[i] \notin WhiteSpace}
    IN IF black = {} THEN <<>>
       ELSE SubSeq(str, CHOOSE i \in black : \A j \in black : i <= j,
                        CHOOSE i \in black : \A j \in black : i >= j)

endSlide(c) ==
    IF c = Thrown THEN Thrown
    ELSE LET sealed ==
                IF c.currentSlide = Undefined THEN c
                ELSE LET withBody ==
                            IF \/ Len(c.images) # 0
                               \/ Len(c.videos) # 0
                               \/ (c.text # Undefined /\ Len(Trim(c.text.rawText)) # 0)
                            THEN [c EXCEPT !.currentSlide.bodies =
                                               Append(@, [text |-> c.text,
                                                          images |-> c.images,
                                                          videos |-> c.videos]),
                                           !.images = <<>>,
                                           !.videos = <<>>]
                            ELSE c
                     IN [withBody EXCEPT !.slides = Append(@, withBody.currentSlide)]
         IN [MarkStale(sealed) EXCEPT !.currentSlide = Undefined, !.text = Undefined]

startSlide(c) ==
    IF c = Thrown THEN Thrown
    ELSE [c EXCEPT !.currentSlide = EmptySlide]

\* done(): endSlide
done(c) == endSlide(c)

currentStyle(c) == c.styles[Len(c.styles)]

startStyle(c, newStyle) ==
    IF c = Thrown THEN Thrown
    ELSE LET previousStyle == currentStyle(c)
             style == [payload |-> Extend(newStyle, previousStyle.payload),
                       start |-> IF c.text = Undefined THEN 0 ELSE Len(c.text.rawText),
                       own |-> newStyle,
                       stale |-> FALSE]
         IN [c EXCEPT !.styles = Append(@, style)]

\* _.matches(style)(run): every key of style is in run with an equal value
Matches(run, style) ==
    /\ run.start = style.start
    /\ run.end = style.end
    /\ \A k \in DOMAIN style.payload :
           k \in DOMAIN run.payload /\ run.payload[k] = style.payload[k]

endStyle(c) ==
    IF c = Thrown THEN Thrown
    ELSE IF Len(c.styles) = 0 THEN Thrown    \* assert(style)
    ELSE LET popped == c.styles[Len(c.styles)]
             rest == [c EXCEPT !.styles = SubSeq(@, 1, Len(@) - 1)]
         IN IF c.text = Undefined THEN rest          \* Ignore empty text style
            ELSE LET style == [payload |-> popped.payload, start |-> popped.start,
                               end |-> Len(c.text.rawText), stale |-> popped.stale]
                 IN IF style.start = style.end THEN rest      \* Ignore empty ranges
                    ELSE IF DOMAIN style.payload = {} THEN rest  \* no style
                    ELSE IF \E i \in DOMAIN c.text.textRuns :
                                Matches(c.text.textRuns[i], style)
                         THEN rest                            \* duplicate ranges
                    ELSE [rest EXCEPT !.text.textRuns = Append(@, style)]

(***************************************************************************)
(* markdown-it tokens (the fields the rules read)                          *)
(***************************************************************************)
Tok(type) ==
    [type |-> type, tag |-> "", class |-> "", layout |-> "", node |-> "",
     content |-> <<>>, css |-> Undefined, children |-> <<>>,
     src |-> "", pad |-> 0, service |-> UndefinedString, videoID |-> UndefinedString,
     offsetX |-> 0, offsetY |-> 0, notes |-> <<>>]

\* before the first token of the stream
NoToken == Tok("")

(***************************************************************************)
(* parser/extract_slides.ts: the token rules                               *)
(***************************************************************************)
\* hasClass(token, cls)
hasClass(tok, cls) == cls = tok.class

\* applyTokenStyle: the style attribute of the token, if any, merged into style
applyTokenStyle(tok, style) ==
    IF tok.css = Undefined THEN style ELSE Extend(style, tok.css)

\* 'sssss'.length copies of a tab: new Array(depth + 1).join('\t')
Tabs(depth) == [i \in 1..depth |-> "\t"]

\* inlineTokenRules['heading_open']
Inline_heading_open(tok, c) == startStyle(c, applyTokenStyle(tok, [bold |-> TRUE]))

\* inlineTokenRules['heading_close'], em_close, s_close, strong_close, link_close,
\* blockquote_close, list_item_close
Rule_endStyle(tok, c) == endStyle(c)

\* the style an inline HTML element stands for
HtmlNodeStyle(node) ==
    CASE node \in {"strong", "b"} -> [bold |-> TRUE]
      [] node \in {"em", "i"} -> [italic |-> TRUE]
      [] node = "code" -> [fontFamily |-> "Courier New"]
      [] node = "sub" -> [baselineOffset |-> "SUBSCRIPT"]
      [] node = "sup" -> [baselineOffset |-> "SUPERSCRIPT"]
      [] OTHER -> <<>>                 \* span

\* inlineTokenRules['html_inline']: tok.node is the name of the first node of the
\* parsed fragment, "" when the fragment has no node (a closing tag).  A '#comment'
\* node hands the token to fullTokenRules['html_block'], which leaves this context
\* alone but for the notes of its slide: that call is the HtmlBlock step of SpecNotes
Rule_html_inline(tok, c) ==
    IF tok.node = "#comment" THEN c
    ELSE IF tok.node # ""
    THEN IF tok.node \notin {"strong", "b", "em", "i", "code", "sub", "sup", "span"}
         THEN Thrown          \* Unsupported inline HTML element
         ELSE startStyle([c EXCEPT !.inlineHtmlContext = tok.node],
                         applyTokenStyle(tok, HtmlNodeStyle(tok.node)))
    ELSE endStyle(c)

\* inlineTokenRules['text'], ['code_inline'] with their base style
Rule_text(tok, c) ==
    endStyle(appendText(startStyle(c, applyTokenStyle(tok, <<>>)), tok.content))

\* paragraph_open that takes a column marker for a plain paragraph
Rule_paragraph_open_NoColumn(tok, c) ==
    IF c.currentSlide = Undefined THEN Thrown
    ELSE IF c.text = Undefined THEN startTextBlock(c)
    ELSE c

\* inlineTokenRules['paragraph_open']
Rule_paragraph_open(tok, c) ==
    IF c.currentSlide = Undefined THEN Thrown     \* assert(context.currentSlide)
    ELSE LET c1 == IF hasClass(tok, "column")
                   THEN startTextBlock(
                            [c EXCEPT !.markerParagraph = TRUE,
                                      !.images = <<>>,
                                      !.videos = <<>>,
                                      !.currentSlide.bodies =
                                          Append(@, [text |-> c.text,
                                                     images |-> c.images,
                                                     videos |-> c.videos])])
                   ELSE IF c.text = Undefined THEN startTextBlock(c)
                   ELSE c
         IN IF tok.layout # UndefinedString /\ tok.layout # ""
            THEN [c1 EXCEPT !.currentSlide.customLayout = tok.layout]
            ELSE c1

\* inlineTokenRules['paragraph_close']
Rule_paragraph_close(tok, c) ==
    IF c.markerParagraph
    THEN [c EXCEPT !.markerParagraph = FALSE]   \* Empty column marker
    ELSE appendText(c, <<"\n">>)

\* inlineTokenRules['em_open'], ['s_open'], ['strong_open'], ['blockquote_open']
Rule_em_open(tok, c) == startStyle(c, applyTokenStyle(tok, [italic |-> TRUE]))

Rule_strong_open(tok, c) == startStyle(c, applyTokenStyle(tok, [bold |-> TRUE]))

\* Rule_list_open without the check of the parent's tag
Rule_list_open_AnyTag(tok, c) ==
    IF c.text = Undefined THEN Thrown
    ELSE LET c1 == startStyle(c, applyTokenStyle(tok, <<>>))
         IN IF c1.list # Undefined
            THEN [c1 EXCEPT !.list.depth = @ + 1]
            ELSE [c1 EXCEPT !.list = [depth |-> 0, tag |-> tok.tag,
                                      start |-> Len(c1.text.rawText),
                                      stale |-> FALSE]]

\* inlineTokenRules['bullet_list_open'] = inlineTokenRules['ordered_list_open']
Rule_list_open(tok, c) ==
    IF c.text = Undefined THEN Thrown             \* assert(context.text)
    ELSE LET c1 == startStyle(c, applyTokenStyle(tok, <<>>))
         IN IF c1.list # Undefined
            THEN IF c1.list.tag # tok.tag
                 THEN Thrown                      \* Nested lists must match parent style
                 ELSE [c1 EXCEPT !.list.depth = @ + 1]
            ELSE [c1 EXCEPT !.list = [depth |-> 0, tag |-> tok.tag,
                                      start |-> Len(c1.text.rawText),
                                      stale |-> FALSE]]

\* Rule_list_close storing a marker at every close, nested or not, from offset 0
Rule_list_close_EveryLevel(tok, c) ==
    IF c.list = Undefined \/ c.text = Undefined THEN Thrown
    ELSE LET marked == [c EXCEPT !.text.listMarkers =
                                     Append(@, [start |-> 0,
                                                end |-> Len(c.text.rawText),
                                                type |-> IF tok.tag = "ul" THEN "unordered"
                                                         ELSE "ordered",
                                                stale |-> c.list.stale])]
         IN IF c.list.depth = 0
            THEN endStyle([marked EXCEPT !.list = Undefined])
            ELSE endStyle([marked EXCEPT !.list.depth = @ - 1])

\* inlineTokenRules['bullet_list_close'] = inlineTokenRules['ordered_list_close']
Rule_list_close(tok, c) ==
    IF c.list = Undefined \/ c.text = Undefined THEN Thrown   \* the two asserts
    ELSE IF c.list.depth = 0
    THEN endStyle([c EXCEPT !.text.listMarkers =
                                Append(@, [start |-> c.list.start,
                                           end |-> Len(c.text.rawText),
                                           type |-> IF tok.tag = "ul" THEN "unordered"
                                                    ELSE "ordered",
                                           stale |-> c.list.stale]),
                            !.list = Undefined])
    ELSE endStyle([c EXCEPT !.list.depth = @ - 1])

\* inlineTokenRules['list_item_open']
Rule_list_item_open(tok, c) ==
    IF c.list = Undefined THEN Thrown             \* assert(context.list)
    ELSE appendText(startStyle(c, applyTokenStyle(tok, <<>>)), Tabs(c.list.depth))

\* token.content.replace(/\n/g, '\u000b')
VerticalTabs(content) == [i \in DOMAIN content |-> IF content[i] = "\n" THEN VT ELSE content[i]]

\* inlineTokenRules['fence'] for a block that names no language
Rule_fence(tok, c) ==
    LET c1 == startStyle(c, applyTokenStyle(tok, [fontFamily |-> "Courier New"]))
    IN endStyle(appendText(appendText(c1, VerticalTabs(tok.content)), <<"\n">>))

\* fullTokenRules['heading_open']
Full_heading_open(tok, c) ==
    LET c1 == startStyle(startTextBlock(c), applyTokenStyle(tok, <<>>))
    IN [c1 EXCEPT !.text.big = hasClass(tok, "big")]

\* fullTokenRules['heading_close']: title/subtitle is the very object context.text
\* that endStyle then writes to, so the slide sees the run endStyle stores
Full_heading_close(tok, c) ==
    IF c.currentSlide = Undefined THEN Thrown     \* assert(context.currentSlide)
    ELSE LET c1 == endStyle(c)
             c2 == IF c1 = Thrown THEN Thrown
                   ELSE IF tok.tag = "h1" THEN [c1 EXCEPT !.currentSlide.title = c1.text]
                   ELSE IF tok.tag = "h2" THEN [c1 EXCEPT !.currentSlide.subtitle = c1.text]
                   ELSE c1                        \* Ignoring header element
         IN startTextBlock(c2)

\* Full_hr that opens the new slide without sealing the current one
Full_hr_NoSeal(tok, c) == startSlide(c)

\* fullTokenRules['hr']
Full_hr(tok, c) == startSlide(endSlide(c))

\* fullTokenRules['table_open']
Full_table_open(tok, c) ==
    LET c1 == startStyle(c, applyTokenStyle(tok, <<>>))
    IN [c1 EXCEPT !.table = [rows |-> 0, columns |-> 0, cells |-> <<>>]]

\* fullTokenRules['table_close']
Full_table_close(tok, c) ==
    IF c.currentSlide = Undefined \/ c.table = Undefined THEN Thrown
    ELSE endStyle([c EXCEPT !.currentSlide.tables = Append(@, c.table)])

\* fullTokenRules['tr_open']
Full_tr_open(tok, c) ==
    LET c1 == startStyle(c, applyTokenStyle(tok, <<>>))
    IN [c1 EXCEPT !.row = <<>>]

Max(a, b) == IF a >= b THEN a ELSE b

\* Full_tr_close that takes the column count from the row it closes
Full_tr_close_LastRow(tok, c) ==
    IF c.table = Undefined THEN Thrown
    ELSE LET cells == Append(c.table.cells, c.row)
         IN endStyle([c EXCEPT !.table = [cells |-> cells,
                                          columns |-> Len(c.row),
                                          rows |-> Len(cells)]])

\* fullTokenRules['tr_close']
Full_tr_close(tok, c) ==
    IF c.table = Undefined THEN Thrown            \* assert(context.table)
    ELSE LET cells == Append(c.table.cells, c.row)
         IN endStyle([c EXCEPT !.table = [cells |-> cells,
                                          columns |-> Max(c.table.columns, Len(c.row)),
                                          rows |-> Len(cells)]])

ThemeText == [themeColor |-> "TEXT1"]

\* fullTokenRules['td_open']
Full_td_open(tok, c) ==
    startTextBlock(startStyle(c, applyTokenStyle(tok, [foregroundColor |-> ThemeText])))

\* fullTokenRules['th_open']
Full_th_open(tok, c) ==
    startTextBlock(startStyle(c, applyTokenStyle(tok,
        [bold |-> TRUE, foregroundColor |-> ThemeText])))

\* fullTokenRules['td_close'] = fullTokenRules['th_close']
Full_td_close(tok, c) ==
    IF c.text = Undefined THEN Thrown             \* assert(context.text)
    ELSE LET c1 == endStyle(c)
         IN startTextBlock([c1 EXCEPT !.row = Append(@, c1.text)])

\* the token types inlineTokenRules has a rule for (those the model's streams use)
InlineRuleTypes ==
    {"heading_open", "heading_close", "inline", "html_inline", "text",
     "paragraph_open", "paragraph_close", "em_open", "em_close", "strong_open",
     "strong_close", "bullet_list_open", "ordered_list_open", "bullet_list_close",
     "ordered_list_close", "list_item_open", "list_item_close", "fence"}

\* inlineTokenRules[tok.type](tok, c)
InlineRule(tok, c) ==
    CASE tok.type = "heading_open" -> Inline_heading_open(tok, c)
      [] tok.type \in {"heading_close", "em_close", "strong_close", "list_item_close"} ->
            Rule_endStyle(tok, c)
      [] tok.type = "html_inline" -> Rule_html_inline(tok, c)
      [] tok.type = "text" -> Rule_text(tok, c)
      [] tok.type = "paragraph_open" -> Rule_paragraph_open(tok, c)
      [] tok.type = "paragraph_close" -> Rule_paragraph_close(tok, c)
      [] tok.type = "em_open" -> Rule_em_open(tok, c)
      [] tok.type = "strong_open" -> Rule_strong_open(tok, c)
      [] tok.type \in {"bullet_list_open", "ordered_list_open"} -> Rule_list_open(tok, c)
      [] tok.type \in {"bullet_list_close", "ordered_list_close"} -> Rule_list_close(tok, c)
      [] tok.type = "list_item_open" -> Rule_list_item_open(tok, c)
      [] tok.type = "fence" -> Rule_fence(tok, c)
      [] OTHER -> c

\* file-url of a path, for a src that names no file:, http: or https: scheme
fileUrl(src) == IF src = "i.png" THEN "file:///i.png" ELSE src

\* Full_image that keeps the first background image of a slide
Full_image_FirstBackground(tok, c) ==
    IF c.currentSlide = Undefined THEN Thrown
    ELSE LET image == [url |-> fileUrl(tok.src), width |-> 0, height |-> 0,
                       padding |-> tok.pad, offsetX |-> tok.offsetX,
                       offsetY |-> tok.offsetY]
         IN IF hasClass(tok, "background")
            THEN IF c.currentSlide.backgroundImage # Undefined THEN c
                 ELSE [c EXCEPT !.currentSlide.backgroundImage = image]
            ELSE [c EXCEPT !.images = Append(@, image)]

\* fullTokenRules['image']
Full_image(tok, c) ==
    IF c.currentSlide = Undefined THEN Thrown     \* assert(context.currentSlide)
    ELSE LET image == [url |-> fileUrl(tok.src), width |-> 0, height |-> 0,
                       padding |-> tok.pad, offsetX |-> tok.offsetX,
                       offsetY |-> tok.offsetY]
         IN IF hasClass(tok, "background")
            THEN [c EXCEPT !.currentSlide.backgroundImage = image]
            ELSE [c EXCEPT !.images = Append(@, image)]

\* fullTokenRules['video']
Full_video(tok, c) ==
    IF tok.service = UndefinedString \/ tok.videoID = UndefinedString THEN c
    ELSE IF tok.service # "youtube" THEN Thrown
    ELSE [c EXCEPT !.videos = Append(@, [width |-> 1600, height |-> 900,
                                         autoPlay |-> TRUE, id |-> tok.videoID])]

\* the token types fullTokenRules overrides or adds
FullRuleTypes ==
    {"heading_open", "heading_close", "hr", "table_open", "table_close", "tr_open",
     "tr_close", "td_open", "th_open", "td_close", "th_close", "image", "video"}

\* fullTokenRules[tok.type](tok, c): extend(fullTokenRules, inlineTokenRules), then
\* the full rules assigned over it
FullRule(tok, c) ==
    CASE tok.type = "heading_open" -> Full_heading_open(tok, c)
      [] tok.type = "heading_close" -> Full_heading_close(tok, c)
      [] tok.type = "hr" -> Full_hr(tok, c)
      [] tok.type = "table_open" -> Full_table_open(tok, c)
      [] tok.type = "table_close" -> Full_table_close(tok, c)
      [] tok.type = "tr_open" -> Full_tr_open(tok, c)
      [] tok.type = "tr_close" -> Full_tr_close(tok, c)
      [] tok.type = "td_open" -> Full_td_open(tok, c)
      [] tok.type = "th_open" -> Full_th_open(tok, c)
      [] tok.type \in {"td_close", "th_close"} -> Full_td_close(tok, c)
      [] tok.type = "image" -> Full_image(tok, c)
      [] tok.type = "video" -> Full_video(tok, c)
      [] OTHER -> InlineRule(tok, c)

\* processMarkdownToken for a token other than 'inline': the rule of the active
\* rule set, and nothing for a type that has none
processMarkdownToken(rules, tok, c) ==
    IF rules = "fullTokenRules"
    THEN IF tok.type \in FullRuleTypes \cup InlineRuleTypes THEN FullRule(tok, c) ELSE c
    ELSE IF tok.type \in InlineRuleTypes THEN InlineRule(tok, c) ELSE c

(***************************************************************************)
(* layout/match_layout.ts                                                  *)
(***************************************************************************)
hasText(text) == text # Undefined /\ Len(text.rawText) > 0

hasBigTitle(slide) == hasText(slide.title) /\ slide.title.big = TRUE

hasTextContent(slide) == Len(slide.bodies) # 0

\* Anything which takes up the main body space
hasContent(slide) == Len(slide.bodies) # 0 \/ Len(slide.tables) # 0

\* the match function of each defineLayout call
LayoutMatch(name, slide) ==
    CASE name = "TITLE" ->
            hasText(slide.title) /\ hasText(slide.subtitle) /\ ~hasContent(slide)
      [] name = "MAIN_POINT" -> hasBigTitle(slide) /\ ~hasContent(slide)
      [] name = "SECTION_HEADER" ->
            hasText(slide.title) /\ ~hasText(slide.subtitle) /\ ~hasContent(slide)
      [] name = "SECTION_TITLE_AND_DESCRIPTION" ->
            hasText(slide.title) /\ hasText(slide.subtitle) /\ hasTextContent(slide)
      [] name = "BIG_NUMBER" -> hasBigTitle(slide) /\ hasTextContent(slide)
      [] name = "TITLE_AND_TWO_COLUMNS" ->
            hasText(slide.title) /\ Len(slide.bodies) = 2
      [] name = "TITLE_AND_BODY" -> hasText(slide.title) \/ Len(slide.bodies) # 0
      [] name = "BLANK" -> TRUE

layoutsSwapped ==
    << "TITLE", "MAIN_POINT", "SECTION_HEADER", "SECTION_TITLE_AND_DESCRIPTION",
       "TITLE_AND_TWO_COLUMNS", "BIG_NUMBER", "TITLE_AND_BODY", "BLANK" >>

\* the `layouts` array, in the order of the defineLayout calls
layouts ==
    << "TITLE", "MAIN_POINT", "SECTION_HEADER", "SECTION_TITLE_AND_DESCRIPTION",
       "BIG_NUMBER", "TITLE_AND_TWO_COLUMNS", "TITLE_AND_BODY", "BLANK" >>

Range(seq) == {seq[i] : i \in DOMAIN seq}

\* Array.prototype.find over a sequence: the element at the first of the indices
\* `hits` (those whose element satisfies the predicate), or `none` (undefined)
\* when there is no such index
FindFirst(seq, hits, none) ==
    IF hits = {} THEN none
    ELSE seq[CHOOSE i \in hits : \A j \in hits : i <= j]

\* presentation.layouts?.find(l => l.layoutProperties?.displayName === slide.customLayout)
FindCustomLayout(presentation, slide) ==
    IF "layouts" \notin DOMAIN presentation THEN Undefined
    ELSE LET ls == presentation.layouts
         IN FindFirst(ls, {i \in DOMAIN ls : ls[i].displayName = slide.customLayout},
                      Undefined)

\* matchLayout: the name of the GenericLayout it returns, "ERROR" when it throws
matchLayout(presentation, slide) ==
    LET custom == IF slide.customLayout # UndefinedString
                  THEN FindCustomLayout(presentation, slide)
                  ELSE Undefined
        layoutName == IF custom # Undefined /\ custom.name # UndefinedString
                      THEN custom.name
                      ELSE UndefinedString
        layout == FindFirst(layouts,
                            {i \in DOMAIN layouts : LayoutMatch(layouts[i], slide)},
                            UndefinedString)
    IN IF layoutName # UndefinedString THEN layoutName
       ELSE IF layout = UndefinedString THEN "ERROR"
       ELSE layout

(***************************************************************************)
(* Inputs of the classifier                                                *)
(***************************************************************************)
TextWith(raw, big) == [EmptyText EXCEPT !.rawText = raw, !.big = big]

TitleInputs ==
    {Undefined} \cup {TextWith(raw, big) : raw \in {<<>>, <<"T">>}, big \in BOOLEAN}

SubtitleInputs == {Undefined, TextWith(<<>>, FALSE), TextWith(<<"S">>, FALSE)}

BodyInput == [text |-> TextWith(<<"b", "\n">>, FALSE), images |-> <<>>, videos |-> <<>>]

TableInput == [rows |-> 1, columns |-> 1, cells |-> << <<TextWith(<<"c">>, FALSE)>> >>]

CustomLayoutInputs == {UndefinedString, "mylayout", "nolayout"}

PresentationInputs ==
    { [presentationId |-> "p"],
      [presentationId |-> "p", layouts |-> <<>>],
      [presentationId |-> "p",
       layouts |-> << [displayName |-> "mylayout", name |-> "MYLAYOUT"] >>],
      [presentationId |-> "p",
       layouts |-> << [displayName |-> "other", name |-> "OTHER"],
                      [displayName |-> "mylayout", name |-> "MYLAYOUT"] >>] }

SlideInputs ==
    { [EmptySlide EXCEPT !.customLayout = cl, !.title = t, !.subtitle = s,
                         !.bodies = [i \in 1..nb |-> BodyInput],
                         !.tables = [i \in 1..nt |-> TableInput]] :
        cl \in CustomLayoutInputs, t \in TitleInputs, s \in SubtitleInputs,
        nb \in 0..MaxBodies, nt \in 0..MaxTables }

(***************************************************************************)
(* The classifier as a state machine: one call of matchLayout              *)
(***************************************************************************)
LInit ==
    /\ lslide \in SlideInputs
    /\ lpresentation \in PresentationInputs
    /\ lresult = UndefinedString
    /\ lpc = "ready"

LIdle ==
    /\ lslide = EmptySlide
    /\ lpresentation = [presentationId |-> "p"]
    /\ lresult = UndefinedString
    /\ lpc = "ready"

MatchLayout ==
    /\ lpc = "ready"
    /\ lresult' = matchLayout(lpresentation, lslide)
    /\ lpc' = "matched"
    /\ UNCHANGED <<lslide, lpresentation>>

(***************************************************************************)
(* The tokenizer (parser/parser.ts, markdown-it): the streams it can emit. *)
(* `open` is the stack of containers the stream has opened and not closed; *)
(* an entry counts the children emitted in it (0 or 1: none, some).        *)
(***************************************************************************)
Entry(kind, tag) == [kind |-> kind, tag |-> tag, n |-> 0]

Top == IF open = <<>> THEN "doc" ELSE open[Len(open)].kind

TopEntry == open[Len(open)]

\* block-level tokens may come next
InBlock == Top \in {"doc", "list_item"}

\* the parent has one more child
BumpTop(o) == IF o = <<>> THEN o ELSE [o EXCEPT ![Len(o)].n = 1]

Push(kind, tag) == Append(BumpTop(open), Entry(kind, tag))

Pop == SubSeq(open, 1, Len(open) - 1)

\* tokens the tokenizer still has to emit to close an entry
Cost(e) ==
    CASE e.kind \in {"heading", "paragraph", "cell"} -> IF e.n = 0 THEN 2 ELSE 1
      [] e.kind = "list" -> IF e.n = 0 THEN 3 ELSE 1
      [] e.kind = "list_item" -> 1
      [] e.kind = "table" -> IF e.n = 0 THEN 6 ELSE 1
      [] e.kind = "tr" -> IF e.n = 0 THEN 4 ELSE 1

RECURSIVE TotalCost(_)
TotalCost(o) == IF o = <<>> THEN 0 ELSE Cost(Head(o)) + TotalCost(Tail(o))

TextTok == [Tok("text") EXCEPT !.content = <<"a">>]

HtmlTok(node) == [Tok("html_inline") EXCEPT !.node = node]

\* the children of an inline token: nothing, plain text, emphasised text, and
\* <sup><sub>a</sub></sup>
InlineContents ==
    { <<>>,
      <<TextTok>>,
      <<Tok("em_open"), TextTok, Tok("em_close")>>,
      <<HtmlTok("sup"), HtmlTok("sub"), TextTok, HtmlTok(""), HtmlTok("")>> }

ImageTok == [Tok("image") EXCEPT !.src = "https://i.png"]

VideoTok == [Tok("video") EXCEPT !.service = "youtube", !.videoID = "v"]

\* an image alone, and a video alone
MediaContents == { <<ImageTok>>, <<VideoTok>> }

\* the inline contents the streams of the model put in a container: any in a plain
\* paragraph, none in a paragraph that only carries a layout attribute, none or
\* plain text in a column marker paragraph and in a heading
InlineContentsOf(e) ==
    CASE e.kind = "paragraph" /\ e.tag = "p" -> InlineContents \cup MediaContents
      [] e.kind = "paragraph" /\ e.tag = "p.layout" -> { <<>> }
      [] e.kind = "paragraph" /\ e.tag = "p.column" -> { <<>>, <<TextTok>> }
      [] e.kind = "heading" -> { <<>>, <<TextTok>> }
      [] OTHER -> InlineContents

(***************************************************************************)
(* extractSlides: processTokens over the stream, then context.done()       *)
(***************************************************************************)
CInit ==
    /\ context = NewContext
    /\ ruleSet = "fullTokenRules"
    /\ index = 0
    /\ token = NoToken
    /\ returned = Undefined
    /\ pc = "compiling"
    /\ open = <<>>
    /\ children = <<>>
    /\ stream = <<>>

\* the compiler is not running
CIdle ==
    /\ context = NewContext
    /\ ruleSet = "fullTokenRules"
    /\ index = 0
    /\ token = NoToken
    /\ returned = Undefined
    /\ pc = "idle"
    /\ open = <<>>
    /\ children = <<>>
    /\ stream = <<>>

\* the rule of token t runs on the context; a throw ends the compile
Apply(t) ==
    LET c2 == processMarkdownToken(ruleSet, t, context)
    IN IF c2 = Thrown
       THEN pc' = "error" /\ context' = context
       ELSE pc' = pc /\ context' = c2

\* what the history records of a token: its type, and the class of a column
\* marker paragraph
StreamName(t) ==
    IF t.type = "paragraph_open" /\ hasClass(t, "column") THEN "paragraph_open.column"
    ELSE t.type

\* one turn of processTokens' forEach for a token other than 'hr' and 'inline'
Step(t, o2) ==
    /\ pc = "compiling"
    /\ children = <<>>
    /\ index + 1 + TotalCost(o2) <= MaxTokens
    /\ token' = t
    /\ index' = index + 1
    /\ stream' = Append(stream, StreamName(t))
    /\ open' = o2
    /\ Apply(t)
    /\ UNCHANGED <<ruleSet, returned, children, lvars, gvars, kvars, pvars, nvars, svars>>

\* 'hr': skipped at index 0, the rule otherwise
Hr ==
    /\ pc = "compiling"
    /\ children = <<>>
    /\ InBlock
    /\ index + 1 + TotalCost(open) <= MaxTokens
    /\ token' = Tok("hr")
    /\ index' = index + 1
    /\ stream' = Append(stream, "hr")
    /\ IF index = 0
       THEN UNCHANGED <<context, pc>>          \* Skip leading HR
       ELSE Apply(Tok("hr"))
    /\ UNCHANGED <<ruleSet, returned, children, open, lvars, gvars, kvars, pvars, nvars, svars>>

HeadingOpen ==
    \E h \in {<<"h1", "">>, <<"h1", "big">>, <<"h2", "">>} :
        /\ InBlock
        /\ Step([Tok("heading_open") EXCEPT !.tag = h[1], !.class = h[2]],
                Push("heading", h[1]))

HeadingClose ==
    /\ Top = "heading" /\ TopEntry.n = 1
    /\ Step([Tok("heading_close") EXCEPT !.tag = TopEntry.tag], Pop)

ParagraphOpen ==
    \E attrs \in {<<"", UndefinedString, "p">>, <<"column", UndefinedString, "p.column">>,
                  <<"", "mylayout", "p.layout">>} :
        /\ InBlock
        /\ Step([Tok("paragraph_open") EXCEPT !.tag = "p", !.class = attrs[1],
                                              !.layout = attrs[2]],
                Push("paragraph", attrs[3]))

ParagraphClose ==
    /\ Top = "paragraph" /\ TopEntry.n = 1
    /\ Step([Tok("paragraph_close") EXCEPT !.tag = "p"], Pop)

\* inlineTokenRules['inline']: the loop over token.children starts
Inline ==
    \E ch \in InlineContents \cup MediaContents :
        /\ pc = "compiling"
        /\ children = <<>>
        /\ Top \in {"heading", "paragraph", "cell"} /\ TopEntry.n = 0
        /\ ch \in InlineContentsOf(TopEntry)
        /\ index + 1 + TotalCost(BumpTop(open)) <= MaxTokens
        /\ token' = [Tok("inline") EXCEPT !.children = ch]
        /\ index' = index + 1
        /\ stream' = Append(stream, "inline")
        /\ open' = BumpTop(open)
        /\ children' = ch
        /\ UNCHANGED <<context, pc, ruleSet, returned, lvars, gvars, kvars, pvars, nvars, svars>>

\* one turn of the loop of inlineTokenRules['inline']: processMarkdownToken(child)
Child(type) ==
    /\ pc = "compiling"
    /\ children # <<>>
    /\ Head(children).type = type
    /\ Apply(Head(children))
    /\ children' = Tail(children)
    /\ UNCHANGED <<ruleSet, index, token, returned, open, stream, lvars, gvars, kvars, pvars, nvars, svars>>

Text == Child("text")

EmOpen == Child("em_open")

EmClose == Child("em_close")

HtmlInline == Child("html_inline")

Image == Child("image")

Video == Child("video")

ListOpen ==
    \E tag \in {"ul", "ol"} :
        /\ InBlock
        /\ Step([Tok(IF tag = "ul" THEN "bullet_list_open" ELSE "ordered_list_open")
                    EXCEPT !.tag = tag],
                Push("list", tag))

ListClose ==
    /\ Top = "list" /\ TopEntry.n = 1
    /\ Step([Tok(IF TopEntry.tag = "ul" THEN "bullet_list_close"
                 ELSE "ordered_list_close") EXCEPT !.tag = TopEntry.tag],
            Pop)

ListItemOpen ==
    /\ Top = "list"
    /\ Step([Tok("list_item_open") EXCEPT !.tag = "li"], Push("list_item", "li"))

ListItemClose ==
    /\ Top = "list_item"
    /\ Step([Tok("list_item_close") EXCEPT !.tag = "li"], Pop)

TableOpen ==
    /\ InBlock
    /\ Step([Tok("table_open") EXCEPT !.tag = "table"], Push("table", "table"))

TableClose ==
    /\ Top = "table" /\ TopEntry.n = 1
    /\ Step([Tok("table_close") EXCEPT !.tag = "table"], Pop)

TrOpen ==
    /\ Top = "table"
    /\ Step([Tok("tr_open") EXCEPT !.tag = "tr"], Push("tr", "tr"))

TrClose ==
    /\ Top = "tr" /\ TopEntry.n = 1
    /\ Step([Tok("tr_close") EXCEPT !.tag = "tr"], Pop)

CellOpen ==
    \E tag \in {"th", "td"} :
        /\ Top = "tr"
        /\ Step([Tok(IF tag = "th" THEN "th_open" ELSE "td_open") EXCEPT !.tag = tag],
                Push("cell", tag))

CellClose ==
    /\ Top = "cell" /\ TopEntry.n = 1
    /\ Step([Tok(IF TopEntry.tag = "th" THEN "th_close" ELSE "td_close")
                EXCEPT !.tag = TopEntry.tag],
            Pop)

\* the stream is over: context.done(), and extractSlides returns context.slides
Done ==
    /\ pc = "compiling"
    /\ children = <<>>
    /\ open = <<>>
    /\ context' = done(context)
    /\ returned' = [slides |-> context'.slides]
    /\ pc' = "done"
    /\ UNCHANGED <<ruleSet, index, token, open, children, stream, lvars, gvars, kvars, pvars, nvars, svars>>

(***************************************************************************)
(* slide_generator.ts: SlideGenerator.generateFromMarkdown.  The images of *)
(* all slides are kept in one sequence, the order processImages visits     *)
(* them; gpending holds the images whose promise of the running stage has  *)
(* not settled (an image counts in `settled` the stages it resolved); glog  *)
(* is the history of the external operations that completed; gremote is the document held by the Slides service and       *)
(* gpresentation the generator's local copy of it.                         *)
(***************************************************************************)
ImageStages == <<"generateImages", "probeImageSizes", "uploadLocalImages">>

\* images/generate.ts: the image after maybeGenerateImage, Thrown when it rejects;
\* ok tells whether the renderer succeeds
maybeGenerateImage(image, ok) ==
    IF image.url # "" THEN image
    ELSE IF image.type \notin {"svg", "math"} THEN Thrown
    ELSE IF ~ok THEN Thrown
    ELSE [image EXCEPT !.url = "file:"]

\* images/probe.ts: the image after probeImage; ok tells whether the probe succeeds
probeImage(image, ok) ==
    IF image.url = "" THEN Thrown
    ELSE IF ~ok THEN Thrown
    ELSE [image EXCEPT !.probed = TRUE]

\* uploadImageifLocal that uploads a local file whatever allowUpload says
uploadImageifLocal_NoOptIn(image, allowUpload, ok) ==
    IF image.url = "" THEN [result |-> Thrown, uploaded |-> FALSE]
    ELSE IF image.url # "file:" THEN [result |-> image, uploaded |-> FALSE]
    ELSE [result |-> IF ok THEN [image EXCEPT !.url = "https:"] ELSE Thrown,
          uploaded |-> TRUE]

\* uploadImageifLocal of uploadLocalImages: the image after it (Thrown when it
\* rejects) and whether it called uploadLocalImage, which sends the file to the
\* upload host; ok tells whether that upload succeeds
uploadImageifLocal(image, allowUpload, ok) ==
    IF image.url = "" THEN [result |-> Thrown, uploaded |-> FALSE]   \* assert(image.url)
    ELSE IF image.url # "file:" THEN [result |-> image, uploaded |-> FALSE]
    ELSE IF ~allowUpload THEN [result |-> Thrown, uploaded |-> FALSE]
    ELSE [result |-> IF ok THEN [image EXCEPT !.url = "https:"] ELSE Thrown,
          uploaded |-> TRUE]

\* presentation_helpers.ts
findLayoutIdByName(presentation, name) ==
    LET layout == IF "layouts" \notin DOMAIN presentation THEN Undefined
                  ELSE FindFirst(presentation.layouts,
                                 {i \in DOMAIN presentation.layouts :
                                     presentation.layouts[i].name = name},
                                 Undefined)
    IN IF layout = Undefined THEN <<>> ELSE layout.objectId

\* findPage that takes the first page of the presentation, whatever its id
findPageFirst(presentation, pageId) ==
    IF "slides" \notin DOMAIN presentation THEN Undefined
    ELSE FindFirst(presentation.slides, DOMAIN presentation.slides, Undefined)

\* findPage: the page of the presentation with the id, Undefined when none has it
findPage(presentation, pageId) ==
    IF "slides" \notin DOMAIN presentation THEN Undefined
    ELSE FindFirst(presentation.slides,
                   {i \in DOMAIN presentation.slides :
                       presentation.slides[i].objectId = pageId},
                   Undefined)

\* the object ids of the pages of a presentation
PageIds(presentation) == {presentation.slides[i].objectId : i \in DOMAIN presentation.slides}

\* uuid() of appendCreateSlideRequest: a fresh id for the i-th slide
uuid(i) == <<"slide", i>>

\* the layout id appendCreateSlideRequest looks up for a slide, <<>> when the
\* presentation has no layout of the matched name
SlideLayoutId(presentation, slide) ==
    findLayoutIdByName(presentation, matchLayout(presentation, slide))

\* createSlides that leaves out the slides whose layout is missing
createSlidesSkipMissing(presentation, slides) ==
    LET kept == {i \in DOMAIN slides : SlideLayoutId(presentation, slides[i].slide) # <<>>}
        nth(k) == CHOOSE i \in kept : Cardinality({j \in kept : j <= i}) = k
    IN [thrown |-> FALSE,
        slides |-> [i \in DOMAIN slides |->
                       IF i \in kept THEN [slides[i] EXCEPT !.objectId = uuid(i)]
                       ELSE slides[i]],
        requests |-> [k \in 1..Cardinality(kept) |->
                         [kind |-> "createSlide", objectId |-> uuid(nth(k)),
                          layoutId |-> SlideLayoutId(presentation, slides[nth(k)].slide)]]]

\* createSlides: appendCreateSlideRequest for every slide in order, up to the
\* first slide whose layout is not in the presentation, where it throws; the
\* slides with the object ids recorded so far, and the batch of requests
createSlides(presentation, slides) ==
    LET missing == {i \in DOMAIN slides : SlideLayoutId(presentation, slides[i].slide) = <<>>}
        n == IF missing = {} THEN Len(slides)
             ELSE (CHOOSE i \in missing : \A j \in missing : i <= j) - 1
    IN [thrown |-> missing # {},
        slides |-> [i \in DOMAIN slides |->
                       IF i <= n THEN [slides[i] EXCEPT !.objectId = uuid(i)]
                       ELSE slides[i]],
        requests |-> [i \in 1..n |->
                         [kind |-> "createSlide", objectId |-> uuid(i),
                          layoutId |-> SlideLayoutId(presentation, slides[i].slide)]]]

(***************************************************************************)
(* layout/generic_layout.ts: the requests GenericLayout adds for the       *)
(* content of one slide.  Numbers the code computes by division are kept   *)
(* as exact fractions [n, d], d > 0.                                       *)
(***************************************************************************)
Frac(n, d) == [n |-> n, d |-> d]

FLe(a, b) == a.n * b.d <= b.n * a.d

FEq(a, b) == a.n * b.d = b.n * a.d

FAdd(a, b) == Frac(a.n * b.d + b.n * a.d, a.d * b.d)

FMul(a, b) == Frac(a.n * b.n, a.d * b.d)

\* Math.max in place of the Math.min of the scale ratio
ScaleRatioMax(box, width, height) ==
    IF FLe(Frac(box.width, width), Frac(box.height, height))
    THEN Frac(box.height, height) ELSE Frac(box.width, width)

\* Math.min(box.width / width, box.height / height)
ScaleRatio(box, width, height) ==
    IF FLe(Frac(box.width, width), Frac(box.height, height))
    THEN Frac(box.width, width) ELSE Frac(box.height, height)

\* the 'left-right' packing of the layout library: the items sorted by width
\* (ties in the order given), laid out side by side from x = 0 at y = 0; the
\* export is as wide as their sum and as high as the highest
PackLeftRight(items) ==
    LET before(i, j) == items[i].width < items[j].width
                           \/ (items[i].width = items[j].width /\ i < j)
        rank(i) == 1 + Cardinality({j \in DOMAIN items : before(j, i)})
        sorted == [k \in DOMAIN items |-> items[CHOOSE i \in DOMAIN items : rank(i) = k]]
        RECURSIVE Sum(_)
        Sum(k) == IF k = 0 THEN 0 ELSE sorted[k].width + Sum(k - 1)
    IN [width |-> Sum(Len(sorted)),
        height |-> CHOOSE h \in {sorted[k].height : k \in DOMAIN sorted} :
                       \A k \in DOMAIN sorted : sorted[k].height <= h,
        items |-> [k \in DOMAIN sorted |->
                      [x |-> Sum(k - 1), y |-> 0, meta |-> sorted[k].meta]]]

\* calculateBoundingBox of a page element
calculateBoundingBox(element) ==
    [width |-> element.scaleX * element.width + element.shearX * element.height,
     height |-> element.scaleY * element.height + element.shearY * element.width,
     x |-> element.translateX, y |-> element.translateY]

\* getBodyBoundingBox: the box of the placeholder, of the page when there is none
getBodyBoundingBox(presentation, placeholder) ==
    IF placeholder # Undefined THEN calculateBoundingBox(placeholder)
    ELSE [width |-> presentation.pageSize.width,
          height |-> presentation.pageSize.height, x |-> 0, y |-> 0]

\* appendCreateImageRequests: one createImage per item of the packed layout
appendCreateImageRequests(images, box, pageObjectId) ==
    LET computedLayout ==
            PackLeftRight([i \in DOMAIN images |->
                              [width |-> images[i].width + images[i].padding * 2,
                               height |-> images[i].height + images[i].padding * 2,
                               meta |-> images[i]]])
        scaleRatio == ScaleRatio(box, computedLayout.width, computedLayout.height)
        scaledWidth == FMul(Frac(computedLayout.width, 1), scaleRatio)
        scaledHeight == FMul(Frac(computedLayout.height, 1), scaleRatio)
        half(f) == Frac(f.n, f.d * 2)
        minus(f) == Frac(0 - f.n, f.d)
        baseTranslateX == FAdd(Frac(box.x, 1),
                               half(FAdd(Frac(box.width, 1), minus(scaledWidth))))
        baseTranslateY == FAdd(Frac(box.y, 1),
                               half(FAdd(Frac(box.height, 1), minus(scaledHeight))))
        request(item) ==
            [kind |-> "createImage", pageObjectId |-> pageObjectId,
             url |-> item.meta.url,
             width |-> FMul(Frac(item.meta.width, 1), scaleRatio),
             height |-> FMul(Frac(item.meta.height, 1), scaleRatio),
             translateX |-> FAdd(baseTranslateX,
                                 FMul(Frac(item.x + item.meta.padding + item.meta.offsetX, 1),
                                      scaleRatio)),
             translateY |-> FAdd(baseTranslateY,
                                 FMul(Frac(item.y + item.meta.padding + item.meta.offsetY, 1),
                                      scaleRatio))]
    IN [k \in DOMAIN computedLayout.items |-> request(computedLayout.items[k])]

\* the keys of the style object of an updateTextStyle request, in its order
StyleFields ==
    << "bold", "italic", "foregroundColor", "backgroundColor", "strikethrough",
       "underline", "smallCaps", "fontFamily", "fontSize", "link", "baselineOffset" >>

\* a run carries the property with a value other than undefined (a colour that
\* parseColorString could not read is a key holding undefined)
HasValue(style, field) ==
    /\ field \in DOMAIN style
    /\ field \in {"foregroundColor", "backgroundColor"} => style[field] # Undefined

\* computeShallowFieldMask listing every key the run has, undefined or not
computeShallowFieldMaskKeys(style) ==
    SelectSeq(StyleFields, LAMBDA field : field \in DOMAIN style)

\* computeShallowFieldMask: the keys of the style object whose value is not undefined
computeShallowFieldMask(style) ==
    SelectSeq(StyleFields, LAMBDA field : HasValue(style, field))

Reverse(seq) == [i \in DOMAIN seq |-> seq[Len(seq) + 1 - i]]

\* the list markers in the order given, not reversed
BulletOrderForward(listMarkers) == listMarkers

\* _.reverse(text.listMarkers): the order the bullet requests are made in
BulletOrder(listMarkers) == Reverse(listMarkers)

\* appendInsertTextRequests: the requests for one text block at a location
appendInsertTextRequests(text, locationProps) ==
    LET styleRequest(textRun) ==
            [kind |-> "updateTextStyle", at |-> locationProps,
             startIndex |-> textRun.start, endIndex |-> textRun.end,
             style |-> [field \in {f \in Range(StyleFields) : HasValue(textRun.payload, f)}
                           |-> textRun.payload[field]],
             fields |-> computeShallowFieldMask(textRun.payload)]
        bulletRequest(listMarker) ==
            [kind |-> "createParagraphBullets", at |-> locationProps,
             startIndex |-> listMarker.start, endIndex |-> listMarker.end,
             bulletPreset |-> IF listMarker.type = "ordered"
                              THEN "NUMBERED_DIGIT_ALPHA_ROMAN"
                              ELSE "BULLET_DISC_CIRCLE_SQUARE"]
        reversed == BulletOrder(text.listMarkers)
    IN << [kind |-> "insertText", at |-> locationProps, text |-> text.rawText] >>
       \o SelectSeq([i \in DOMAIN text.textRuns |-> styleRequest(text.textRuns[i])],
                    LAMBDA r : r.fields # <<>>)
       \o [i \in DOMAIN reversed |-> bulletRequest(reversed[i])]

\* the text block of a slide at a path: title, subtitle, notes, the text of body
\* i, the cell (r, c) of the first table
TextAt(slide, path) ==
    CASE path.at = "title" -> slide.slide.title
      [] path.at = "subtitle" -> slide.slide.subtitle
      [] path.at = "notes" -> slide.slide.notes
      [] path.at = "body" -> slide.slide.bodies[path.i].text
      [] path.at = "cell" -> slide.slide.tables[1].cells[path.r][path.c]

\* _.reverse reverses the array it is given: the slide once the list markers of
\* the text block at a path have been reversed in place
ReversedAt(slide, path) ==
    CASE path.at = "title" -> [slide EXCEPT !.slide.title.listMarkers = Reverse(@)]
      [] path.at = "subtitle" -> [slide EXCEPT !.slide.subtitle.listMarkers = Reverse(@)]
      [] path.at = "notes" -> [slide EXCEPT !.slide.notes.listMarkers = Reverse(@)]
      [] path.at = "body" ->
            [slide EXCEPT !.slide.bodies[path.i].text.listMarkers = Reverse(@)]
      [] path.at = "cell" ->
            [slide EXCEPT !.slide.tables[1].cells[path.r][path.c].listMarkers = Reverse(@)]

\* A layout at work is [slide, requests, thrown]: this.slide, the requests array
\* handed in, and whether an Error has been thrown.
\* One call of appendInsertTextRequests on the text block at a path.
InsertTextAt(g, path, locationProps) ==
    [g EXCEPT !.requests = @ \o appendInsertTextRequests(TextAt(g.slide, path),
                                                         locationProps),
              !.slide = ReversedAt(@, path)]

\* findPlaceholder: the elements of the page that are placeholders of a type
\* (none: undefined); thrown when the presentation has no such page
findPlaceholder(presentation, pageId, name) ==
    LET page == findPage(presentation, pageId)
    IN IF page = Undefined THEN [thrown |-> TRUE, elements |-> <<>>]
       ELSE IF "pageElements" \notin DOMAIN page THEN [thrown |-> FALSE, elements |-> <<>>]
       ELSE [thrown |-> FALSE,
             elements |-> SelectSeq(page.pageElements, LAMBDA e : e.type = name)]

\* appendFillPlaceholderTextRequest with the name of a placeholder
appendFillPlaceholderTextRequest(presentation, g, path, placeholder) ==
    LET pageElements == findPlaceholder(presentation, g.slide.objectId, placeholder)
    IN IF g.thrown \/ TextAt(g.slide, path) = Undefined THEN g
       ELSE IF pageElements.thrown THEN [g EXCEPT !.thrown = TRUE]
       ELSE IF pageElements.elements = <<>> THEN g
       ELSE InsertTextAt(g, path, [objectId |-> pageElements.elements[1].objectId])

\* appendSetBackgroundImageRequest
appendSetBackgroundImageRequest(g) ==
    IF g.thrown \/ g.slide.slide.backgroundImage = Undefined THEN g
    ELSE [g EXCEPT !.requests =
             Append(@, [kind |-> "updatePageProperties", objectId |-> g.slide.objectId,
                        fields |-> "pageBackgroundFill.stretchedPictureFill.contentUrl",
                        contentUrl |-> g.slide.slide.backgroundImage.url])]

\* the check of appendCreateTableRequests left out
TooManyTablesNever(tables) == FALSE

\* tables.length > 1
TooManyTables(tables) == Len(tables) > 1

\* videos.length > 1
TooManyVideos(videos) == Len(videos) > 1

RECURSIVE InsertCells(_, _, _)
\* the loops of appendCreateTableRequests over the cells still to visit
InsertCells(g, tableId, cellPaths) ==
    IF cellPaths = <<>> THEN g
    ELSE InsertCells(InsertTextAt(g, cellPaths[1],
                                  [objectId |-> tableId,
                                   rowIndex |-> cellPaths[1].r - 1,
                                   columnIndex |-> cellPaths[1].c - 1]),
                     tableId, Tail(cellPaths))

RECURSIVE CellPaths(_, _, _)
\* the cells of a table in the order of `for r in table.cells`, `for c in row`
CellPaths(cells, r, c) ==
    IF r > Len(cells) THEN <<>>
    ELSE IF c > Len(cells[r]) THEN CellPaths(cells, r + 1, 1)
    ELSE <<[at |-> "cell", r |-> r, c |-> c]>> \o CellPaths(cells, r, c + 1)

\* appendCreateTableRequests
appendCreateTableRequests(g) ==
    LET tables == g.slide.slide.tables
        tableId == <<"table", Len(g.requests) + 1>>
        created == [g EXCEPT !.requests =
                       Append(@, [kind |-> "createTable", objectId |-> tableId,
                                  pageObjectId |-> g.slide.objectId,
                                  rows |-> tables[1].rows,
                                  columns |-> tables[1].columns])]
    IN IF g.thrown THEN g
       ELSE IF TooManyTables(tables) THEN [g EXCEPT !.thrown = TRUE]
       ELSE InsertCells(created, tableId, CellPaths(tables[1].cells, 1, 1))

\* appendCreateVideoRequests
appendCreateVideoRequests(presentation, g, videos, placeholder) ==
    LET video == videos[1]
        box == getBodyBoundingBox(presentation, placeholder)
        scaleRatio == ScaleRatio(box, video.width, video.height)
        scaledWidth == FMul(Frac(video.width, 1), scaleRatio)
        scaledHeight == FMul(Frac(video.height, 1), scaleRatio)
        centre(at, whole, part) ==
            FAdd(Frac(at, 1),
                 Frac(whole * part.d - part.n, part.d * 2))
        objectId == <<"video", Len(g.requests) + 1>>
    IN IF TooManyVideos(videos) THEN [g EXCEPT !.thrown = TRUE]
       ELSE [g EXCEPT !.requests = @ \o
               << [kind |-> "createVideo", objectId |-> objectId, id |-> video.id,
                   pageObjectId |-> g.slide.objectId,
                   width |-> scaledWidth, height |-> scaledHeight,
                   translateX |-> centre(box.x, box.width, scaledWidth),
                   translateY |-> centre(box.y, box.height, scaledHeight)],
                  [kind |-> "updateVideoProperties", objectId |-> objectId,
                   fields |-> "autoPlay", autoPlay |-> video.autoPlay] >>]

\* every body is put into the first placeholder
BodyPlaceholderFirst(bodyElements, i) == bodyElements[1]

\* bodyElements[i]
BodyPlaceholder(bodyElements, i) == bodyElements[i]

\* the body of the loop of appendContentRequests over the bodies
appendBody(presentation, g, bodyElements, i) ==
    LET placeholder == BodyPlaceholder(bodyElements, i)
        body == g.slide.slide.bodies[i]
        filled == IF body.text = Undefined THEN g
                  ELSE InsertTextAt(g, [at |-> "body", i |-> i],
                                    [objectId |-> placeholder.objectId])
        imaged == IF Len(body.images) = 0 THEN filled
                  ELSE [filled EXCEPT !.requests = @ \o
                           appendCreateImageRequests(
                               body.images,
                               getBodyBoundingBox(presentation, placeholder),
                               g.slide.objectId)]
    IN IF Len(body.videos) = 0 THEN imaged
       ELSE appendCreateVideoRequests(presentation, imaged, body.videos, placeholder)

RECURSIVE appendBodies(_, _, _, _, _)
\* for (let i = 0; i < bodyCount; ++i)
appendBodies(presentation, g, bodyElements, i, bodyCount) ==
    IF g.thrown \/ i > bodyCount THEN g
    ELSE appendBodies(presentation, appendBody(presentation, g, bodyElements, i),
                      bodyElements, i + 1, bodyCount)

\* findSpeakerNotesObjectId (<<>>: undefined)
findSpeakerNotesObjectId(presentation, pageId) ==
    LET page == findPage(presentation, pageId)
    IN IF page # Undefined /\ "speakerNotesObjectId" \in DOMAIN page
       THEN page.speakerNotesObjectId ELSE <<>>

\* GenericLayout.appendContentRequests on a slide and the requests so far
appendContentRequests(presentation, slide, requests) ==
    LET g0 == [slide |-> slide, requests |-> requests, thrown |-> FALSE]
        g1 == appendFillPlaceholderTextRequest(presentation, g0, [at |-> "title"], "TITLE")
        g2 == appendFillPlaceholderTextRequest(presentation, g1, [at |-> "title"],
                                               "CENTERED_TITLE")
        g3 == appendFillPlaceholderTextRequest(presentation, g2, [at |-> "subtitle"],
                                               "SUBTITLE")
        g4 == appendSetBackgroundImageRequest(g3)
        g5 == IF Len(slide.slide.tables) = 0 THEN g4 ELSE appendCreateTableRequests(g4)
        bodyElements == findPlaceholder(presentation, slide.objectId, "BODY")
        bodyCount == IF Len(bodyElements.elements) < Len(slide.slide.bodies)
                     THEN Len(bodyElements.elements) ELSE Len(slide.slide.bodies)
        g6 == IF g5.thrown THEN g5
              ELSE IF bodyElements.thrown THEN [g5 EXCEPT !.thrown = TRUE]
              ELSE appendBodies(presentation, g5, bodyElements.elements, 1, bodyCount)
    IN IF g6.thrown \/ slide.slide.notes = Undefined THEN g6
       ELSE InsertTextAt(g6, [at |-> "notes"],
                         [objectId |-> findSpeakerNotesObjectId(presentation,
                                                                slide.objectId)])

(***************************************************************************)
(* slide_generator.ts, continued: the two batches and the service          *)
(***************************************************************************)
\* a placeholder element of a page
Placeholder(type, n) ==
    [objectId |-> <<type, n>>, type |-> type, width |-> 4 * n, height |-> 4,
     scaleX |-> 1, scaleY |-> 1, shearX |-> 0, shearY |-> 0,
     translateX |-> 1, translateY |-> 2]

\* the page the service creates for a createSlide request: the title and body
\* placeholders of the layout and a notes shape, their ids the service's own
NewPage(request) ==
    [objectId |-> request.objectId,
     speakerNotesObjectId |-> <<"notes", request.objectId[2]>>,
     pageElements |-> << Placeholder("TITLE", request.objectId[2]),
                         Placeholder("BODY", request.objectId[2]) >>]

\* the object a request of a batch edits
Target(request) ==
    IF "at" \in DOMAIN request THEN request.at.objectId
    ELSE IF "pageObjectId" \in DOMAIN request THEN request.pageObjectId
    ELSE request.objectId

\* the service applying a batch to the document
BatchUpdate(remote, requests) ==
    LET created == SelectSeq(requests, LAMBDA r : r.kind = "createSlide")
        edited == SelectSeq(requests, LAMBDA r : r.kind # "createSlide")
    IN [remote EXCEPT !.slides = @ \o [i \in DOMAIN created |-> NewPage(created[i])],
                      !.filled = @ \cup {Target(edited[i]) : i \in DOMAIN edited}]

\* reloadPresentation that keeps the copy it has
reloadPresentationKeep(remote, local) == local

\* reloadPresentation: what this.presentation becomes, res.data of presentations.get
reloadPresentation(remote, local) == remote

(***************************************************************************)
(* Inputs of the generator                                                 *)
(***************************************************************************)
ImageInputs ==
    { [url |-> "https:", type |-> "", probed |-> FALSE, settled |-> 0],
      [url |-> "file:", type |-> "", probed |-> FALSE, settled |-> 0],
      [url |-> "", type |-> "svg", probed |-> FALSE, settled |-> 0],
      [url |-> "", type |-> "dot", probed |-> FALSE, settled |-> 0] }

GenSlideInputs ==
    { [slide |-> EmptySlide, objectId |-> <<>>],
      [slide |-> [EmptySlide EXCEPT !.title = TextWith(<<"T">>, FALSE)],
       objectId |-> <<>>] }

LayoutObject(name, n) == [displayName |-> name, name |-> name, objectId |-> <<"layout", n>>]

RemoteInputs ==
    { [presentationId |-> "p", pageSize |-> [width |-> 16, height |-> 9],
       layouts |-> ls,
       slides |-> [j \in 1..np |-> [objectId |-> <<"page", j>>]], filled |-> {}] :
        ls \in { << LayoutObject("BLANK", 1), LayoutObject("SECTION_HEADER", 2) >>,
                 << LayoutObject("BLANK", 1) >> },
        np \in 0..MaxPages }

SeqsUpTo(S, n) == UNION { [1..k -> S] : k \in 0..n }

GInit ==
    /\ gpc = "start"
    /\ gresult = "pending"
    /\ gslides \in SeqsUpTo(GenSlideInputs, MaxSlides) \ {<<>>}
    /\ gallowUpload = FALSE
    /\ gimages \in SeqsUpTo(ImageInputs, MaxImages)
    /\ gpending = {}
    /\ gremote \in RemoteInputs
    /\ gpresentation = gremote
    /\ gbatch = Undefined
    /\ glog = <<>>

LogEntry(op) == [op |-> op]

\* generateFromMarkdown up to its first await: generateImages has called
\* maybeGenerateImage for every image
GenerateFromMarkdown ==
    /\ gpc = "start"
    /\ \E useFileio \in BOOLEAN : gallowUpload' = useFileio
    /\ gpc' = "generateImages"
    /\ gpending' = DOMAIN gimages
    /\ UNCHANGED <<gresult, gslides, gimages, gpresentation, gremote, gbatch, glog>>
    /\ UNCHANGED <<cvars, lvars, kvars, pvars, nvars, svars>>

\* the promise of image i in the running stage settles with result r; a
\* rejection rejects Promise.all and with it generateFromMarkdown, the promises
\* of the other images stay pending; calls are the external calls made on the way
Settle(i, r, calls) ==
    /\ gpending' = gpending \ {i}
    /\ IF r = Thrown
       THEN /\ gresult' = "rejected"
            /\ glog' = glog \o calls
            /\ UNCHANGED gimages
       ELSE /\ gimages' = [gimages EXCEPT ![i] = [r EXCEPT !.settled = @ + 1]]
            /\ glog' = glog \o calls \o <<LogEntry(gpc)>>
            /\ UNCHANGED gresult
    /\ UNCHANGED <<gpc, gslides, gallowUpload, gpresentation, gremote, gbatch>>
    /\ UNCHANGED <<cvars, lvars, kvars, pvars, nvars, svars>>

GenerateImage ==
    /\ gpc = "generateImages"
    /\ \E i \in gpending, ok \in BOOLEAN : Settle(i, maybeGenerateImage(gimages[i], ok), <<>>)

ProbeImage ==
    /\ gpc = "probeImageSizes"
    /\ \E i \in gpending, ok \in BOOLEAN : Settle(i, probeImage(gimages[i], ok), <<>>)

UploadImage ==
    /\ gpc = "uploadLocalImages"
    /\ \E i \in gpending, ok \in BOOLEAN :
           LET u == uploadImageifLocal(gimages[i], gallowUpload, ok)
           IN Settle(i, u.result,
                     IF u.uploaded THEN <<LogEntry("uploadLocalImage")>> ELSE <<>>)

\* await of processImages returns: Promise.all has resolved, the next image
\* stage calls its function for every image
NextImageStage(from, to) ==
    /\ gpc = from
    /\ gresult = "pending"
    /\ gpending = {}
    /\ gpc' = to
    /\ gpending' = DOMAIN gimages
    /\ UNCHANGED <<gresult, gslides, gallowUpload, gimages, gpresentation, gremote,
                   gbatch, glog>>
    /\ UNCHANGED <<cvars, lvars, kvars, pvars, nvars, svars>>

ProbeImageSizes == NextImageStage("generateImages", "probeImageSizes")

UploadLocalImages == NextImageStage("probeImageSizes", "uploadLocalImages")

\* this.createSlides(), the argument of the first updatePresentation
CreateSlides ==
    /\ gpc = "uploadLocalImages"
    /\ gresult = "pending"
    /\ gpending = {}
    /\ LET r == createSlides(gpresentation, gslides)
       IN IF r.thrown
          THEN /\ gresult' = "rejected"
               /\ gslides' = r.slides
               /\ UNCHANGED <<gpc, gbatch>>
          ELSE /\ gslides' = r.slides
               /\ gbatch' = [phase |-> "A", requests |-> r.requests,
                             basis |-> gpresentation]
               /\ gpc' = "updatePresentation"
               /\ UNCHANGED gresult
    /\ UNCHANGED <<gallowUpload, gimages, gpending, gpresentation, gremote, glog>>
    /\ UNCHANGED <<cvars, lvars, kvars, pvars, nvars, svars>>

\* updatePresentation(batch): no call for an empty batch, else presentations.batchUpdate
UpdatePresentation ==
    /\ gpc = "updatePresentation"
    /\ gresult = "pending"
    /\ \E ok \in BOOLEAN :
         IF gbatch.requests # <<>> /\ ~ok
         THEN /\ gresult' = "rejected"
              /\ UNCHANGED <<gpc, gremote, glog>>
         ELSE /\ IF gbatch.requests = <<>>
                 THEN UNCHANGED <<gremote, glog>>
                 ELSE /\ gremote' = BatchUpdate(gremote, gbatch.requests)
                      /\ glog' = Append(glog, LogEntry("batchUpdate" \o gbatch.phase))
              /\ IF gbatch.phase = "A"
                 THEN gpc' = "reloadPresentation" /\ UNCHANGED gresult
                 ELSE gpc' = "done" /\ gresult' = "resolved"
    /\ UNCHANGED <<gslides, gallowUpload, gimages, gpending, gpresentation, gbatch>>
    /\ UNCHANGED <<cvars, lvars, kvars, pvars, nvars, svars>>

ReloadPresentation ==
    /\ gpc = "reloadPresentation"
    /\ gresult = "pending"
    /\ \E ok \in BOOLEAN :
         IF ok
         THEN /\ gpresentation' = reloadPresentation(gremote, gpresentation)
              /\ glog' = Append(glog, LogEntry("get"))
              /\ gpc' = "populateSlides"
              /\ UNCHANGED gresult
         ELSE /\ gresult' = "rejected"
              /\ UNCHANGED <<gpc, gpresentation, glog>>
    /\ UNCHANGED <<gslides, gallowUpload, gimages, gpending, gremote, gbatch>>
    /\ UNCHANGED <<cvars, lvars, kvars, pvars, nvars, svars>>

\* populateSlides: one turn of its loop, appendContentRequests of the layout
\* object of the next slide on batch.requests (while the loop runs, gbatch holds
\* the requests so far and the index of the next slide, its phase "populate")
PopulateSlide ==
    /\ gpc = "populateSlides"
    /\ gresult = "pending"
    /\ LET i == IF gbatch.phase = "A" THEN 1 ELSE gbatch.next
           requests == IF gbatch.phase = "A" THEN <<>> ELSE gbatch.requests
       IN /\ i <= Len(gslides)
          /\ LET g == appendContentRequests(gpresentation, gslides[i], requests)
             IN /\ gslides' = [gslides EXCEPT ![i] = g.slide]
                /\ IF g.thrown
                   THEN /\ gresult' = "rejected"
                        /\ UNCHANGED gbatch
                   ELSE /\ gbatch' = [phase |-> "populate", requests |-> g.requests,
                                      basis |-> gpresentation, next |-> i + 1]
                        /\ UNCHANGED gresult
    /\ UNCHANGED <<gpc, gallowUpload, gimages, gpending, gpresentation, gremote, glog>>
    /\ UNCHANGED <<cvars, lvars, kvars, pvars, nvars, svars>>

\* this.populateSlides() returns its batch, the argument of the second
\* updatePresentation
PopulateSlides ==
    /\ gpc = "populateSlides"
    /\ gresult = "pending"
    /\ gbatch.phase = "populate"
    /\ gbatch.next > Len(gslides)
    /\ gbatch' = [phase |-> "B", requests |-> gbatch.requests, basis |-> gbatch.basis]
    /\ gpc' = "updatePresentation"
    /\ UNCHANGED <<gresult, gslides, gallowUpload, gimages, gpending, gpresentation,
                   gremote, glog>>
    /\ UNCHANGED <<cvars, lvars, kvars, pvars, nvars, svars>>

KIdle ==
    /\ kslide = Undefined
    /\ kslide0 = Undefined
    /\ kpresentation = Undefined
    /\ krequests = <<>>
    /\ kpc = "idle"

NIdle ==
    /\ nstack = <<>>
    /\ nruleSet = "fullTokenRules"
    /\ npc = "idle"
    /\ nlog = <<>>

SIdle ==
    /\ scss = <<>>
    /\ sstyle = <<>>
    /\ spc = "idle"

PIdle ==
    /\ pimages = <<>>
    /\ pbox = Undefined
    /\ prequests = <<>>
    /\ ppc = "idle"

GIdle ==
    /\ gpc = "idle"
    /\ gresult = "pending"
    /\ gslides = <<>>
    /\ gallowUpload = FALSE
    /\ gimages = <<>>
    /\ gpending = {}
    /\ gpresentation = Undefined
    /\ gremote = Undefined
    /\ gbatch = Undefined
    /\ glog = <<>>

Init == CInit /\ LIdle /\ GIdle /\ KIdle /\ PIdle /\ NIdle /\ SIdle

Next ==
    \/ Hr
    \/ HeadingOpen
    \/ HeadingClose
    \/ ParagraphOpen
    \/ ParagraphClose
    \/ Inline
    \/ Text
    \/ EmOpen
    \/ EmClose
    \/ HtmlInline
    \/ Image
    \/ Video
    \/ ListOpen
    \/ ListClose
    \/ ListItemOpen
    \/ ListItemClose
    \/ TableOpen
    \/ TableClose
    \/ TrOpen
    \/ TrClose
    \/ CellOpen
    \/ CellClose
    \/ Done

Spec == Init /\ [][Next]_vars

LayoutInit == CIdle /\ LInit /\ GIdle /\ KIdle /\ PIdle /\ NIdle /\ SIdle

LayoutNext == MatchLayout /\ UNCHANGED <<cvars, gvars, kvars, pvars, nvars, svars>>

SpecLayout == LayoutInit /\ [][LayoutNext]_vars

GenInit == CIdle /\ LIdle /\ GInit /\ KIdle /\ PIdle /\ NIdle /\ SIdle

GenNext ==
    \/ GenerateFromMarkdown
    \/ GenerateImage
    \/ ProbeImageSizes
    \/ ProbeImage
    \/ UploadLocalImages
    \/ UploadImage
    \/ CreateSlides
    \/ UpdatePresentation
    \/ ReloadPresentation
    \/ PopulateSlide
    \/ PopulateSlides

SpecGen == GenInit /\ [][GenNext]_vars

RECURSIVE processChildren(_, _, _)
\* the loop of inlineTokenRules['inline'] over token.children
processChildren(tokens, i, c) ==
    IF i > Len(tokens) \/ c = Thrown THEN c
    ELSE processChildren(tokens, i + 1,
                         processMarkdownToken("fullTokenRules", tokens[i], c))

RECURSIVE processTokens(_, _, _)
\* processTokens over the tokens from the index on, under fullTokenRules
processTokens(tokens, i, c) ==
    IF i > Len(tokens) \/ c = Thrown THEN c
    ELSE LET tok == tokens[i]
         IN processTokens(tokens, i + 1,
                IF tok.type = "hr" /\ i = 1 THEN c
                ELSE IF tok.type = "inline" THEN processChildren(tok.children, 1, c)
                ELSE processMarkdownToken("fullTokenRules", tok, c))

\* extractSlides on a token stream: the slides, Thrown when a rule throws
extractSlides(tokens) ==
    LET c == processTokens(tokens, 1, NewContext)
    IN IF c = Thrown THEN Thrown ELSE [slides |-> done(c).slides]

\* the tokens of a table of one header cell and one body cell
TableTokens ==
    << [Tok("table_open") EXCEPT !.tag = "table"],
       [Tok("tr_open") EXCEPT !.tag = "tr"],
       [Tok("th_open") EXCEPT !.tag = "th"],
       [Tok("inline") EXCEPT !.children = <<TextTok>>],
       [Tok("th_close") EXCEPT !.tag = "th"],
       [Tok("tr_close") EXCEPT !.tag = "tr"],
       [Tok("tr_open") EXCEPT !.tag = "tr"],
       [Tok("td_open") EXCEPT !.tag = "td"],
       [Tok("inline") EXCEPT !.children = <<TextTok>>],
       [Tok("td_close") EXCEPT !.tag = "td"],
       [Tok("tr_close") EXCEPT !.tag = "tr"],
       [Tok("table_close") EXCEPT !.tag = "table"] >>

\* the slides of a document of two tables and no slide separator
TwoTablesCompiled == extractSlides(TableTokens \o TableTokens)

(***************************************************************************)
(* Inputs of the content pass: compiled slides whose object id Phase A has *)
(* set, and the reloaded presentation                                      *)
(***************************************************************************)
MaxRegions == 2        \* body regions of a slide handed to the content pass
MaxPlaceholders == 2   \* BODY placeholders of the page of the slide

Run(payload, start, end) ==
    [payload |-> payload, start |-> start, end |-> end, stale |-> FALSE]

Marker(type, start, end) ==
    [type |-> type, start |-> start, end |-> end, stale |-> FALSE]

\* "one\ntwo\n": an unordered list followed by an ordered one, a bold run, a
\* run whose colour parseColorString could not read, and a run with both
ListedText ==
    [EmptyText EXCEPT
        !.rawText = <<"o", "n", "e", "\n", "t", "w", "o", "\n">>,
        !.textRuns = << Run([bold |-> TRUE], 0, 3),
                        Run([foregroundColor |-> Undefined], 4, 5),
                        Run([italic |-> TRUE, backgroundColor |-> Undefined], 5, 7) >>,
        !.listMarkers = << Marker("unordered", 0, 4), Marker("ordered", 4, 8) >>]

ImageInput(url) ==
    [url |-> url, width |-> 2, height |-> 1, padding |-> 0, offsetX |-> 0, offsetY |-> 0]

VideoInput(id) == [width |-> 1600, height |-> 900, autoPlay |-> TRUE, id |-> id]

ContentBodyInputs ==
    { [text |-> TextWith(<<"b", "\n">>, FALSE), images |-> <<>>, videos |-> <<>>],
      [text |-> ListedText, images |-> <<>>, videos |-> <<>>],
      [text |-> TextWith(<<"\n">>, FALSE), images |-> <<ImageInput("https://i")>>,
       videos |-> <<>>],
      [text |-> TextWith(<<"\n">>, FALSE), images |-> <<>>,
       videos |-> <<VideoInput("v1")>>],
      [text |-> TextWith(<<"\n">>, FALSE), images |-> <<>>,
       videos |-> <<VideoInput("v1"), VideoInput("v2")>>] }

ContentSlideInputs ==
    { [slide |-> [EmptySlide EXCEPT !.title = t, !.subtitle = s, !.bodies = bodies,
                                    !.tables = [i \in 1..nt |-> TableInput],
                                    !.notes = n, !.backgroundImage = bg],
       objectId |-> uuid(1)] :
        t \in {Undefined, TextWith(<<"T">>, FALSE)},
        s \in {Undefined, TextWith(<<"S">>, FALSE)},
        bodies \in SeqsUpTo(ContentBodyInputs, MaxRegions),
        nt \in 0..MaxTables,
        n \in {Undefined, TextWith(<<"n", "\n">>, FALSE)},
        bg \in {Undefined, ImageInput("https://bg")} }
    \cup { [slide |-> TwoTablesCompiled.slides[1], objectId |-> uuid(1)] }

\* the presentation after the reload: the page of the slide with some of the
\* placeholders of its layout, and one presentation that lacks the page
ContentPresentationInputs ==
    { [presentationId |-> "p", pageSize |-> [width |-> 16, height |-> 9],
       slides |-> << [objectId |-> uuid(1),
                      speakerNotesObjectId |-> <<"notes", 1>>,
                      pageElements |->
                          SelectSeq(<<Placeholder("TITLE", 1),
                                      Placeholder("CENTERED_TITLE", 1),
                                      Placeholder("SUBTITLE", 1)>>,
                                    LAMBDA e : e.type \in types)
                          \o [i \in 1..nb |-> Placeholder("BODY", i)]] >>] :
        types \in SUBSET {"TITLE", "CENTERED_TITLE", "SUBTITLE"},
        nb \in 0..MaxPlaceholders }
    \cup { [presentationId |-> "p", pageSize |-> [width |-> 16, height |-> 9],
            slides |-> <<>>] }

(***************************************************************************)
(* The content pass as a state machine: one call of appendContentRequests  *)
(* on a layout object                                                      *)
(***************************************************************************)
KInit ==
    /\ kslide \in ContentSlideInputs
    /\ kslide0 = kslide
    /\ kpresentation \in ContentPresentationInputs
    /\ krequests = <<>>
    /\ kpc = "ready"

AppendContentRequests ==
    /\ kpc = "ready"
    /\ LET g == appendContentRequests(kpresentation, kslide, krequests)
       IN /\ kslide' = g.slide
          /\ krequests' = g.requests
          /\ kpc' = IF g.thrown THEN "thrown" ELSE "done"
    /\ UNCHANGED <<kslide0, kpresentation>>
    /\ UNCHANGED <<cvars, lvars, gvars, pvars, nvars, svars>>

ContentInit == CIdle /\ LIdle /\ GIdle /\ KInit /\ PIdle /\ NIdle /\ SIdle

ContentNext == AppendContentRequests

SpecContent == ContentInit /\ [][ContentNext]_vars


(***************************************************************************)
(* Properties of the compiler                                              *)
(***************************************************************************)
TableTexts(tb) == UNION {Range(tb.cells[r]) : r \in DOMAIN tb.cells}

\* the text blocks a slide holds
SlideTexts(sl) ==
    ({sl.title, sl.subtitle, sl.notes}
        \cup {sl.bodies[i].text : i \in DOMAIN sl.bodies}
        \cup UNION {TableTexts(sl.tables[i]) : i \in DOMAIN sl.tables})
    \ {Undefined}

\* every text block the compile holds: in the sealed slides, in the slide being
\* built, in the table and row being built, and the current one
AllTexts ==
    (UNION {SlideTexts(context.slides[i]) : i \in DOMAIN context.slides}
        \cup (IF context.currentSlide = Undefined THEN {}
              ELSE SlideTexts(context.currentSlide))
        \cup (IF context.table = Undefined THEN {} ELSE TableTexts(context.table))
        \cup Range(context.row)
        \cup {context.text})
    \ {Undefined}

\* the text blocks of the slides extractSlides returned
ReturnedTexts ==
    IF returned = Undefined THEN {}
    ELSE UNION {SlideTexts(returned.slides[i]) : i \in DOMAIN returned.slides}

SameRun(r1, r2) ==
    r1.start = r2.start /\ r1.end = r2.end /\ r1.payload = r2.payload

\* C4: in every text block the compiler produces, each stored style run has
\* start < end and at least one style property besides its bounds, and no two
\* runs of a block have the same (start, end, payload)
C4_StyleRunsWellFormed ==
    \A t \in AllTexts \cup ReturnedTexts :
        \A i \in DOMAIN t.textRuns :
            /\ t.textRuns[i].start < t.textRuns[i].end
            /\ DOMAIN t.textRuns[i].payload # {}
            /\ \A j \in DOMAIN t.textRuns :
                   i # j => ~SameRun(t.textRuns[i], t.textRuns[j])

\* a range lies inside the text of its block, and starts at 0 when the block
\* was installed after the scope of the range had opened
RangeInBlock(r, t) ==
    /\ 0 <= r.start
    /\ r.start <= r.end
    /\ r.end <= Len(t.rawText)
    /\ r.stale => r.start = 0

\* C5: every style run and list marker stored in a text block is an offset range
\* into that block's raw text, 0 <= start <= end <= length, covering the text
\* appended to that block while its scope was open, also when the current text
\* block is replaced between the scope's open and its close
C5_RangesInsideOwnBlock ==
    \A t \in AllTexts \cup ReturnedTexts :
        /\ \A i \in DOMAIN t.textRuns : RangeInBlock(t.textRuns[i], t)
        /\ \A i \in DOMAIN t.listMarkers : RangeInBlock(t.listMarkers[i], t)

\* thematic breaks at stream positions other than 0 (the first position is 1 here)
BoundaryCount == Cardinality({i \in 2..Len(stream) : stream[i] = "hr"})

\* C6: the compiler returns exactly 1 + k slides, k the number of thematic breaks
\* at stream positions other than 0; a thematic break at position 0 changes
\* nothing, so the stream gives the same result with and without it
C6_SlideCount ==
    /\ pc = "done" => Len(returned.slides) = 1 + BoundaryCount
    /\ pc # "error" => Len(context.slides) + (IF pc = "done" THEN 0 ELSE 1)
                          = 1 + BoundaryCount
    /\ (stream = <<"hr">> /\ pc = "compiling") => context = NewContext

\* C6 witness: a compile that returned, whose stream had a leading thematic break,
\* two consecutive ones and a trailing one
C6_Witness ==
    /\ pc = "done"
    /\ Len(stream) >= 6
    /\ stream[1] = "hr" /\ stream[2] = "heading_open"
    /\ stream[5] = "hr" /\ stream[6] = "hr"
    /\ stream[Len(stream)] = "hr"
    /\ Len(returned.slides) = Len(stream) - 3

IsPrefix(a, b) == Len(a) <= Len(b) /\ a = SubSeq(b, 1, Len(a))

\* the token stream of "* item 1\n* item 2\n"
ListFirstStream ==
    << "bullet_list_open",
       "list_item_open", "paragraph_open", "inline", "paragraph_close", "list_item_close",
       "list_item_open", "paragraph_open", "inline", "paragraph_close", "list_item_close",
       "bullet_list_close" >>

\* C7: compiling a slide whose first block is a list, nothing before it, succeeds
\* and yields one slide with one body region whose text block has exactly one
\* list marker, unordered, from offset 0 to the text length
C7_ListFirstSlideCompiles ==
    /\ (stream # <<>> /\ IsPrefix(stream, ListFirstStream)) => pc # "error"
    /\ (pc = "done" /\ stream = ListFirstStream /\ ReturnedTexts # {}) =>
           /\ Len(returned.slides) = 1
           /\ Len(returned.slides[1].bodies) = 1
           /\ LET t == returned.slides[1].bodies[1].text
              IN /\ Len(t.listMarkers) = 1
                 /\ t.listMarkers[1].type = "unordered"
                 /\ t.listMarkers[1].start = 0
                 /\ t.listMarkers[1].end = Len(t.rawText)

\* C8: the payload pushed when a scope opens inside another takes the new scope's
\* value for every key the new scope defines, and the outer scope's value only for
\* the keys the new scope does not define
C8_ChildOverridesParent ==
    \A i \in 2..Len(context.styles) :
        LET child == context.styles[i]
            parent == context.styles[i - 1]
        IN /\ \A k \in DOMAIN child.own :
                  k \in DOMAIN child.payload /\ child.payload[k] = child.own[k]
           /\ \A k \in (DOMAIN parent.payload) \ (DOMAIN child.own) :
                  k \in DOMAIN child.payload /\ child.payload[k] = parent.payload[k]

ListOpens == {"bullet_list_open", "ordered_list_open"}

ListCloses == {"bullet_list_close", "ordered_list_close"}

\* the lists of a stream that closed at nesting depth 0: Scan(s, d, n) continues
\* the count n through s, d lists being open
RECURSIVE Scan(_, _, _)
Scan(s, d, n) ==
    IF s = <<>> THEN n
    ELSE IF Head(s) \in ListOpens THEN Scan(Tail(s), d + 1, n)
    ELSE IF Head(s) \in ListCloses /\ d > 0
         THEN Scan(Tail(s), d - 1, IF d = 1 THEN n + 1 ELSE n)
    ELSE Scan(Tail(s), d, n)

OutermostListsClosed == Scan(stream, 0, 0)

RECURSIVE SumMarkers(_)
SumMarkers(texts) ==
    IF texts = {} THEN 0
    ELSE LET t == CHOOSE x \in texts : TRUE
         IN Len(t.listMarkers) + SumMarkers(texts \ {t})

NestedListOpenStep ==
    /\ index' = index + 1
    /\ token'.type \in ListOpens
    /\ context.list # Undefined

C10_NestedWitness ==
    /\ pc = "compiling"
    /\ context.list # Undefined
    /\ context.list.depth = 1

(***************************************************************************)
(* Properties of the classifier                                            *)
(***************************************************************************)
Present(text) == text # Undefined /\ text.rawText # <<>>

Large(text) == Present(text) /\ text.big

\* the template the ordered rule list of the classifier assigns to a slide
RuleListTemplate(slide) ==
    LET title == Present(slide.title)
        subtitle == Present(slide.subtitle)
        large == Large(slide.title)
        bodies == Len(slide.bodies)
        tables == Len(slide.tables)
    IN IF title /\ subtitle /\ bodies = 0 /\ tables = 0 THEN "TITLE"
       ELSE IF large /\ bodies = 0 /\ tables = 0 THEN "MAIN_POINT"
       ELSE IF title /\ ~subtitle /\ bodies = 0 /\ tables = 0 THEN "SECTION_HEADER"
       ELSE IF title /\ subtitle /\ bodies >= 1 THEN "SECTION_TITLE_AND_DESCRIPTION"
       ELSE IF large /\ bodies >= 1 THEN "BIG_NUMBER"
       ELSE IF title /\ bodies = 2 THEN "TITLE_AND_TWO_COLUMNS"
       ELSE IF title \/ bodies >= 1 THEN "TITLE_AND_BODY"
       ELSE "BLANK"

\* C1: without a named-template override matchLayout returns the template of the
\* first rule of the fixed list that holds; a slide with title, subtitle and a
\* body is SECTION_TITLE_AND_DESCRIPTION, a slide with a large title, no subtitle
\* and two bodies is BIG_NUMBER
C1_FixedRuleOrder ==
    (lpc = "matched" /\ lslide.customLayout = UndefinedString) =>
        /\ lresult = RuleListTemplate(lslide)
        /\ (Present(lslide.title) /\ Present(lslide.subtitle) /\ Len(lslide.bodies) >= 1)
              => lresult = "SECTION_TITLE_AND_DESCRIPTION"
        /\ (Large(lslide.title) /\ ~Present(lslide.subtitle) /\ Len(lslide.bodies) = 2)
              => lresult = "BIG_NUMBER"

\* C1 witness: a slide with a large title, no subtitle and two bodies has been
\* classified as BIG_NUMBER
C1_Witness ==
    /\ lpc = "matched"
    /\ lslide.customLayout = UndefinedString
    /\ Large(lslide.title)
    /\ ~Present(lslide.subtitle)
    /\ Len(lslide.bodies) = 2
    /\ lresult = "BIG_NUMBER"

LayoutsNamed(presentation, displayName) ==
    IF "layouts" \notin DOMAIN presentation THEN {}
    ELSE {l \in Range(presentation.layouts) : l.displayName = displayName}

\* C2: with a named-template override, classification fails when no layout of the
\* document has that display name, and returns the layout of that name when
\* there is one
C2_OverrideResolvedOrError ==
    (lpc = "matched" /\ lslide.customLayout # UndefinedString) =>
        IF LayoutsNamed(lpresentation, lslide.customLayout) = {}
        THEN lresult = "ERROR"
        ELSE lresult \in {l.name : l \in LayoutsNamed(lpresentation, lslide.customLayout)}

\* the resolved half of C2: an override that names a layout of the document
\* returns that layout, whatever the slide's shape
C2_ResolvedOverride ==
    (/\ lpc = "matched"
     /\ lslide.customLayout # UndefinedString
     /\ LayoutsNamed(lpresentation, lslide.customLayout) # {}) =>
        lresult \in {l.name : l \in LayoutsNamed(lpresentation, lslide.customLayout)}

(***************************************************************************)
(* Properties of the generator                                             *)
(***************************************************************************)
\* the place of an external operation in generateFromMarkdown
OpRank(op) ==
    CASE op = "generateImages" -> 1
      [] op = "probeImageSizes" -> 2
      [] op \in {"uploadLocalImage", "uploadLocalImages"} -> 3
      [] op = "batchUpdateA" -> 4
      [] op = "get" -> 5
      [] op = "batchUpdateB" -> 6

\* the number of stages generateFromMarkdown has left behind
StagesPassed ==
    CASE gpc \in {"start", "idle", "generateImages"} -> 0
      [] gpc = "probeImageSizes" -> 1
      [] gpc = "uploadLocalImages" -> 2
      [] gpc = "updatePresentation" -> IF gbatch.phase = "A" THEN 3 ELSE 5
      [] gpc = "reloadPresentation" -> 4
      [] gpc = "populateSlides" -> 5
      [] gpc = "done" -> 6

Logged(op) == LogEntry(op) \in Range(glog)

CreatedPages == {gslides[i].objectId : i \in DOMAIN gslides}

\* C3: the external operations complete in the order generation, probing,
\* upload, Phase A batch, re-fetch, Phase B batch; a stage is entered only when
\* every image has finished the stages before it; the Phase B batch is computed
\* from the re-fetched document, which holds the slides Phase A created
C3_StagesInOrder ==
    /\ \A i, j \in DOMAIN glog : i < j => OpRank(glog[i].op) <= OpRank(glog[j].op)
    /\ \A k \in DOMAIN ImageStages :
           /\ StagesPassed >= k => \A i \in DOMAIN gimages : gimages[i].settled >= k
           /\ Cardinality({i \in DOMAIN glog : glog[i].op = ImageStages[k]})
                 = Cardinality({i \in DOMAIN gimages : gimages[i].settled >= k})
    /\ gpending # {} => gpc \in Range(ImageStages)
    /\ StagesPassed >= 4 => Logged("batchUpdateA")
    /\ StagesPassed >= 5 =>
           /\ Logged("get")
           /\ gpc = "populateSlides" => gpresentation = gremote
           /\ CreatedPages \subseteq PageIds(gpresentation)
    /\ (gbatch # Undefined /\ gbatch.phase = "B") =>
           /\ gbatch.basis = gpresentation
           /\ CreatedPages \subseteq PageIds(gbatch.basis)
    /\ Logged("batchUpdateB") => Logged("get") /\ Logged("batchUpdateA")

\* C3 witness: a run over a generated image and a local image has resolved after
\* all six stages, the Phase B batch sent
C3_Witness ==
    /\ gpc = "done"
    /\ gresult = "resolved"
    /\ Len(gimages) = 2
    /\ gimages[1].type = "svg" /\ gimages[1].url = "https:"
    /\ gimages[2].type = "" /\ gimages[2].settled = 3
    /\ Logged("batchUpdateB")
    /\ Len(glog) = 11

\* the ids of the layouts of a document that carry a template's name
TemplateIds(presentation, template) ==
    {l.objectId : l \in {x \in Range(presentation.layouts) : x.name = template}}

\* C11: the Phase A batch holds exactly one slide creation per compiled slide, in
\* slide order, each with a new object id, recorded on the slide, and the
\* document's layout id of the slide's template; when the template of a slide is
\* not in the document the run is rejected and no Phase A batch is sent
C11_OneCreationPerSlide ==
    /\ (gbatch # Undefined /\ gbatch.phase = "A") =>
           /\ Len(gbatch.requests) = Len(gslides)
           /\ \A i \in DOMAIN gslides :
                  LET r == gbatch.requests[i]
                  IN /\ r.kind = "createSlide"
                     /\ r.objectId = gslides[i].objectId
                     /\ r.objectId \notin PageIds(gbatch.basis)
                     /\ \A j \in DOMAIN gslides : j # i => gbatch.requests[j].objectId # r.objectId
                     /\ r.layoutId \in TemplateIds(gbatch.basis,
                                                   RuleListTemplate(gslides[i].slide))
    /\ (gpc # "idle" /\ \E i \in DOMAIN gslides :
            TemplateIds(gremote, RuleListTemplate(gslides[i].slide)) = {}) =>
           /\ gbatch = Undefined
           /\ ~Logged("batchUpdateA")
           /\ gpc \in {"start", "generateImages", "probeImageSizes", "uploadLocalImages"}

\* C11 witness: the Phase A batch of a deck of two slides with different
\* templates has been sent
C11_Witness ==
    /\ gpc = "reloadPresentation"
    /\ Logged("batchUpdateA")
    /\ Len(gslides) = 2
    /\ gbatch.requests[1].layoutId # gbatch.requests[2].layoutId
    /\ {gslides[1].objectId, gslides[2].objectId} \subseteq PageIds(gremote)

\* the failing half of C11 has happened: createSlides threw on a missing template
C11_RejectedWitness ==
    /\ gpc = "uploadLocalImages"
    /\ gpending = {}
    /\ gresult = "rejected"
    /\ \E i \in DOMAIN gslides :
           TemplateIds(gremote, RuleListTemplate(gslides[i].slide)) = {}
    /\ \A i \in DOMAIN gimages : gimages[i].settled = 3

(***************************************************************************)
(* The image packing as a state machine: one call of                       *)
(* appendCreateImageRequests on images the probe has sized                 *)
(***************************************************************************)
MaxSide == 2       \* natural width and height of an image
MaxPacked == 2     \* images handed to one call
MaxBox == 3        \* width and height of the bounding box

ImageUrls == <<"a", "b", "c", "d">>

\* images as the image rule makes them (padding and offsets from the pad,
\* offset-x and offset-y attributes, here the same for the images of a call)
\* with the size the probe found
PackImageInputs ==
    UNION { { [i \in 1..n |-> [url |-> ImageUrls[i], width |-> size[i][1],
                               height |-> size[i][2], padding |-> pad,
                               offsetX |-> off, offsetY |-> off]] :
                size \in [1..n -> (1..MaxSide) \X (1..MaxSide)],
                pad \in {0, 1}, off \in {0, 1} } :
            n \in 1..MaxPacked }

PInit ==
    /\ pimages \in PackImageInputs
    /\ pbox \in { [width |-> w, height |-> h, x |-> 0, y |-> 0] :
                    w \in 1..MaxBox, h \in 1..MaxBox }
    /\ prequests = <<>>
    /\ ppc = "ready"

AppendCreateImageRequests ==
    /\ ppc = "ready"
    /\ prequests' = prequests \o appendCreateImageRequests(pimages, pbox, uuid(1))
    /\ ppc' = "done"
    /\ UNCHANGED <<pimages, pbox>>
    /\ UNCHANGED <<cvars, lvars, gvars, kvars, nvars, svars>>

PackInit == CIdle /\ LIdle /\ GIdle /\ KIdle /\ PInit /\ NIdle /\ SIdle

PackNext == AppendCreateImageRequests

SpecPack == PackInit /\ [][PackNext]_vars

(***************************************************************************)
(* Properties of the content pass (SpecContent)                            *)
(***************************************************************************)
\* the requests of a kind made at an object, in order
RequestsAt(requests, kind, objectId) ==
    SelectSeq(requests, LAMBDA r : r.kind = kind /\ r.at.objectId = objectId)

TextKinds == {"insertText", "updateTextStyle", "createParagraphBullets"}

\* the elements of the page of the slide that are placeholders of a type
PlaceholdersOf(type) ==
    IF kpresentation.slides = <<>> THEN <<>>
    ELSE SelectSeq(kpresentation.slides[1].pageElements, LAMBDA e : e.type = type)

\* the body regions that have a BODY placeholder: 1..min(#bodies, #placeholders)
PlacedRegions ==
    {i \in 1..Len(kslide0.slide.bodies) : i <= Len(PlaceholdersOf("BODY"))}

\* what makes the content pass throw: the page is missing, the slide has more
\* than one table, a placed region has more than one video
ContentThrows ==
    \/ kpresentation.slides = <<>>
    \/ Len(kslide0.slide.tables) > 1
    \/ \E i \in PlacedRegions : Len(kslide0.slide.bodies[i].videos) > 1

\* C12: when the content pass ends, the text of body region i is inserted into
\* the i-th BODY placeholder, once, for every i up to min(#bodies, #BODY
\* placeholders); a BODY placeholder receives the text of no other region,
\* regions beyond the placeholders get no text request and raise no error; a
\* title or subtitle whose placeholder is missing is skipped and raises no error.
C12_BodiesFillPlaceholdersInOrder ==
    /\ kpc = "done" =>
          /\ \A i \in PlacedRegions :
                LET at == RequestsAt(krequests, "insertText",
                                     PlaceholdersOf("BODY")[i].objectId)
                IN /\ Len(at) = 1
                   /\ at[1].text = kslide0.slide.bodies[i].text.rawText
          /\ \A j \in DOMAIN PlaceholdersOf("BODY") :
                j \notin PlacedRegions =>
                    RequestsAt(krequests, "insertText",
                               PlaceholdersOf("BODY")[j].objectId) = <<>>
          /\ Len(SelectSeq(krequests,
                           LAMBDA r : r.kind = "insertText"
                                      /\ r.at.objectId[1] = "BODY"))
                = Cardinality(PlacedRegions)
          /\ \A type \in {"TITLE", "CENTERED_TITLE", "SUBTITLE"} :
                LET text == IF type = "SUBTITLE" THEN kslide0.slide.subtitle
                            ELSE kslide0.slide.title
                    at == SelectSeq(krequests,
                                    LAMBDA r : r.kind = "insertText"
                                               /\ r.at.objectId = <<type, 1>>)
                IN IF text # Undefined /\ PlaceholdersOf(type) # <<>>
                   THEN Len(at) = 1 /\ at[1].text = text.rawText
                   ELSE at = <<>>
    /\ kpc = "thrown" => ContentThrows

\* C12 witness: two body regions with different texts were put into the two
\* BODY placeholders of the page
C12_Witness ==
    /\ kpc = "done"
    /\ Len(kslide0.slide.bodies) = 2 /\ Len(PlaceholdersOf("BODY")) = 2
    /\ kslide0.slide.bodies[1].text # kslide0.slide.bodies[2].text
    /\ RequestsAt(krequests, "insertText", <<"BODY", 2>>) # <<>>

\* C12 witness: a slide with more body regions than BODY placeholders, a title
\* and no title placeholder went through without an error
C12_SkippedWitness ==
    /\ kpc = "done"
    /\ Len(kslide0.slide.bodies) = 2 /\ Len(PlaceholdersOf("BODY")) = 1
    /\ kslide0.slide.title # Undefined
    /\ PlaceholdersOf("TITLE") = <<>> /\ PlaceholdersOf("CENTERED_TITLE") = <<>>

\* C13: a document with two tables on one slide compiles, without an error, to a
\* slide that holds both tables; the content pass on a slide with more than one
\* table never ends normally, and when it throws no createTable request has been
\* made: no table is emitted with the others dropped.
C13_SecondTableFailsContent ==
    /\ TwoTablesCompiled # Thrown
    /\ Len(TwoTablesCompiled.slides) = 1
    /\ Len(TwoTablesCompiled.slides[1].tables) = 2
    /\ Len(kslide0.slide.tables) > 1 =>
          /\ kpc \in {"ready", "thrown"}
          /\ \A i \in DOMAIN krequests : krequests[i].kind # "createTable"

\* C13 witness: the content pass threw on the slide the compiler made of the
\* two tables
C13_Witness ==
    /\ kpc = "thrown"
    /\ kslide0.slide = TwoTablesCompiled.slides[1]
    /\ Len(kslide0.slide.tables) = 2
    /\ kpresentation.slides # <<>>

RECURSIVE VideoCount(_)
\* the videos of a sequence of body regions
VideoCount(bodies) ==
    IF bodies = <<>> THEN 0 ELSE Len(Head(bodies).videos) + VideoCount(Tail(bodies))

\* C14: the content pass on a slide that holds more than one video, wherever the
\* videos sit (in one body region, one in each of two columns, in a region that
\* has no placeholder), never ends normally.
C14_MultipleVideosFail ==
    VideoCount(kslide0.slide.bodies) > 1 => kpc \in {"ready", "thrown"}

\* C14, what the code does: the pass throws for the videos only when one placed
\* body region holds more than one of them
C14_VideosCheckedPerPlacedRegion ==
    /\ kpc = "done" =>
          \A i \in PlacedRegions : Len(kslide0.slide.bodies[i].videos) <= 1
    /\ (kpc # "ready" /\ kpresentation.slides # <<>> /\ Len(kslide0.slide.tables) <= 1
        /\ \E i \in PlacedRegions : Len(kslide0.slide.bodies[i].videos) > 1)
          => kpc = "thrown"

\* C14: the pass ended normally with one createVideo request for each of two
\* columns
C14_TwoColumnsWitness ==
    /\ kpc = "done"
    /\ Len(kslide0.slide.bodies) = 2
    /\ \A i \in 1..2 : Len(kslide0.slide.bodies[i].videos) = 1
    /\ Len(SelectSeq(krequests, LAMBDA r : r.kind = "createVideo")) = 2

\* the text block of the slide that a location of the document is filled from
BlockFor(slide, at) ==
    CASE at.objectId[1] \in {"TITLE", "CENTERED_TITLE"} -> slide.slide.title
      [] at.objectId[1] = "SUBTITLE" -> slide.slide.subtitle
      [] at.objectId[1] = "BODY" -> slide.slide.bodies[at.objectId[2]].text
      [] at.objectId[1] = "notes" -> slide.slide.notes
      [] at.objectId[1] = "table" ->
            slide.slide.tables[1].cells[at.rowIndex + 1][at.columnIndex + 1]

\* the indices of the text requests made at a location
IndicesAt(at) ==
    {i \in DOMAIN krequests : krequests[i].kind \in TextKinds /\ krequests[i].at = at}

\* the locations that got a text request
LocationsFilled == {krequests[i].at : i \in {j \in DOMAIN krequests :
                                                 krequests[j].kind \in TextKinds}}

\* the ranges of the requests of a kind at a location, in the order made
RangesAt(at, kind) ==
    LET made == SelectSeq(krequests, LAMBDA r : r.kind = kind /\ r.at = at)
    IN [i \in DOMAIN made |-> <<made[i].startIndex, made[i].endIndex>>]

\* the runs of a block that define a style property
StyledRuns(text) ==
    SelectSeq(text.textRuns,
              LAMBDA run : \E f \in DOMAIN run.payload :
                               f \in {"foregroundColor", "backgroundColor"}
                                   => run.payload[f] # Undefined)

\* C15: the requests of every populated text block are consecutive; the first is
\* the block's one insertText with its raw text, then come the style updates in
\* the order of the block's runs, then the bullet requests in the reverse of the
\* order of the block's list markers.
C15_InsertStylesBulletsReversed ==
    \A at \in LocationsFilled :
        LET text == BlockFor(kslide0, at)
            idx == IndicesAt(at)
            first == CHOOSE i \in idx : \A j \in idx : i <= j
            rank(i) == CASE krequests[i].kind = "insertText" -> 0
                         [] krequests[i].kind = "updateTextStyle" -> 1
                         [] krequests[i].kind = "createParagraphBullets" -> 2
            runs == StyledRuns(text)
        IN /\ idx = first..(first + Cardinality(idx) - 1)
           /\ krequests[first].kind = "insertText"
           /\ krequests[first].text = text.rawText
           /\ \A i \in idx : i # first => krequests[i].kind # "insertText"
           /\ \A i, j \in idx : i < j => rank(i) <= rank(j)
           /\ RangesAt(at, "updateTextStyle")
                 = [i \in DOMAIN runs |-> <<runs[i].start, runs[i].end>>]
           /\ RangesAt(at, "createParagraphBullets")
                 = [i \in DOMAIN text.listMarkers |->
                       LET m == text.listMarkers[Len(text.listMarkers) + 1 - i]
                       IN <<m.start, m.end>>]

\* C15 witness: a block of three runs and two lists was put into the first BODY
\* placeholder: two style updates and two bullet requests
C15_Witness ==
    /\ kpc = "done"
    /\ Len(kslide0.slide.bodies) >= 1
    /\ kslide0.slide.bodies[1].text = ListedText
    /\ Len(RangesAt([objectId |-> <<"BODY", 1>>], "updateTextStyle")) = 2
    /\ Len(RangesAt([objectId |-> <<"BODY", 1>>], "createParagraphBullets")) = 2

\* Lemma of the compiler (Spec), used by C15: a title or subtitle carries no list
\* marker, so the block emitted twice in one pass (the title, for TITLE and
\* CENTERED_TITLE) has no bullets whose order the first emission could change.
TitlesCarryNoListMarkers ==
    \A sl \in Range(context.slides) \cup {context.currentSlide} :
        sl # Undefined =>
            /\ sl.title # Undefined => sl.title.listMarkers = <<>>
            /\ sl.subtitle # Undefined => sl.subtitle.listMarkers = <<>>

\* the style properties a run defines: those it holds with a value
DefinedProperties(run) ==
    {f \in DOMAIN run.payload :
        f \in {"foregroundColor", "backgroundColor"} => run.payload[f] # Undefined}

\* C16: the style updates of a block are those of its runs that define a style
\* property, one each; the field mask of each lists exactly the properties its
\* run defines, each once, and the style sent holds their values; a run that
\* defines none gets no style update.
C16_MaskListsDefinedProperties ==
    \A at \in LocationsFilled :
        LET runs == StyledRuns(BlockFor(kslide0, at))
            made == SelectSeq(krequests,
                              LAMBDA r : r.kind = "updateTextStyle" /\ r.at = at)
        IN /\ Len(made) = Len(runs)
           /\ \A k \in DOMAIN made :
                 /\ made[k].fields # <<>>
                 /\ Range(made[k].fields) = DefinedProperties(runs[k])
                 /\ Len(made[k].fields) = Cardinality(DefinedProperties(runs[k]))
                 /\ \A f \in DefinedProperties(runs[k]) :
                        made[k].style[f] = runs[k].payload[f]

\* C16 witness: of the three runs of a body, the one whose only property is an
\* unreadable colour got no style update, and the italic one with an unreadable
\* background got the mask "italic"
C16_Witness ==
    /\ kpc = "done"
    /\ Len(kslide0.slide.bodies) >= 1
    /\ kslide0.slide.bodies[1].text = ListedText
    /\ RangesAt([objectId |-> <<"BODY", 1>>], "updateTextStyle") = << <<0, 3>>, <<5, 7>> >>
    /\ \E i \in DOMAIN krequests :
          /\ krequests[i].kind = "updateTextStyle"
          /\ krequests[i].fields = <<"italic">>

\* C17: the content pass leaves the slide's text blocks as they were (raw text,
\* runs, list markers and their order), so a second pass over the slide would
\* make the requests the first pass made.
C17_SealedTextImmutable ==
    kpc = "done" =>
        /\ kslide = kslide0
        /\ appendContentRequests(kpresentation, kslide, <<>>).requests = krequests

\* C17, what the code does: a pass changes nothing of the slide but the order of
\* the list markers of the blocks it emitted, which it leaves reversed
C17_OnlyMarkerOrderChanges ==
    kpc = "done" =>
        /\ [kslide EXCEPT !.slide.bodies = <<>>] = [kslide0 EXCEPT !.slide.bodies = <<>>]
        /\ Len(kslide.slide.bodies) = Len(kslide0.slide.bodies)
        /\ \A i \in DOMAIN kslide.slide.bodies :
              LET after == kslide.slide.bodies[i]
                  before == kslide0.slide.bodies[i]
              IN /\ [after EXCEPT !.text.listMarkers = <<>>]
                        = [before EXCEPT !.text.listMarkers = <<>>]
                 /\ after.text.listMarkers
                        = IF i \in PlacedRegions THEN Reverse(before.text.listMarkers)
                          ELSE before.text.listMarkers

\* C17: after the pass the two list markers of a body stand in reverse order
C17_ReversedWitness ==
    /\ kpc = "done"
    /\ Len(kslide0.slide.bodies) >= 1
    /\ kslide0.slide.bodies[1].text = ListedText
    /\ kslide.slide.bodies[1].text.listMarkers
          = << Marker("ordered", 4, 8), Marker("unordered", 0, 4) >>

RECURSIVE ImageCount(_)
\* the images of a sequence of body regions
ImageCount(bodies) ==
    IF bodies = <<>> THEN 0 ELSE Len(Head(bodies).images) + ImageCount(Tail(bodies))

\* a createImage request lies within a box
WithinBox(r, box) ==
    /\ FLe(Frac(box.x, 1), r.translateX)
    /\ FLe(Frac(box.y, 1), r.translateY)
    /\ FLe(FAdd(r.translateX, r.width), Frac(box.x + box.width, 1))
    /\ FLe(FAdd(r.translateY, r.height), Frac(box.y + box.height, 1))

\* the box the images of body region i are to be placed in: that of the region's
\* BODY placeholder, of the page when the region has none
RegionBox(i) ==
    IF i \in PlacedRegions
    THEN calculateBoundingBox(PlaceholdersOf("BODY")[i])
    ELSE [width |-> kpresentation.pageSize.width,
          height |-> kpresentation.pageSize.height, x |-> 0, y |-> 0]

\* C18: when the content pass ends, there is one createImage request for every
\* image of every body region, inside the bounding box of the region's
\* placeholder, or of the page when the region has no placeholder.
C18_EveryBodyImageCreated ==
    kpc = "done" =>
        /\ Len(SelectSeq(krequests, LAMBDA r : r.kind = "createImage"))
              = ImageCount(kslide0.slide.bodies)
        /\ \A i \in DOMAIN kslide0.slide.bodies :
              \A k \in DOMAIN kslide0.slide.bodies[i].images :
                 \E n \in DOMAIN krequests :
                    /\ krequests[n].kind = "createImage"
                    /\ krequests[n].url = kslide0.slide.bodies[i].images[k].url
                    /\ WithinBox(krequests[n], RegionBox(i))

\* C18, what the code does: the images of the regions that have a placeholder
\* are created inside the placeholder's box, those of the other regions are not
\* created at all
C18_OnlyPlacedImagesCreated ==
    kpc = "done" =>
        /\ LET placed == [i \in 1..Cardinality(PlacedRegions) |-> kslide0.slide.bodies[i]]
           IN Len(SelectSeq(krequests, LAMBDA r : r.kind = "createImage"))
                 = ImageCount(placed)
        /\ \A i \in PlacedRegions :
              \A k \in DOMAIN kslide0.slide.bodies[i].images :
                 \E n \in DOMAIN krequests :
                    /\ krequests[n].kind = "createImage"
                    /\ krequests[n].url = kslide0.slide.bodies[i].images[k].url
                    /\ WithinBox(krequests[n], RegionBox(i))

\* C18: the pass ended normally on a slide whose second body region holds an
\* image and has no placeholder, and made no createImage request
C18_DroppedWitness ==
    /\ kpc = "done"
    /\ Len(kslide0.slide.bodies) = 2 /\ Len(PlaceholdersOf("BODY")) = 1
    /\ Len(kslide0.slide.bodies[1].images) = 0
    /\ Len(kslide0.slide.bodies[2].images) = 1
    /\ \A n \in DOMAIN krequests : krequests[n].kind # "createImage"

(***************************************************************************)
(* Properties of the image packing (SpecPack)                              *)
(***************************************************************************)
RECURSIVE WidthSum(_)
\* the width of images laid side by side
WidthSum(images) ==
    IF images = <<>> THEN 0 ELSE Head(images).width + WidthSum(Tail(images))

\* the height of the highest image
HeightMax(images) ==
    CHOOSE h \in {images[i].height : i \in DOMAIN images} :
        \A i \in DOMAIN images : images[i].height <= h

\* C19: for images of positive sizes with zero padding and offset placed in a
\* box of size (W, H), one factor s = min(W / packedWidth, H / packedHeight)
\* scales them all: there is one createImage per image, of the image's natural
\* width and height times s, and every scaled image lies inside the box.
C19_ScaleLaw ==
    (/\ ppc = "done"
     /\ \A i \in DOMAIN pimages :
            pimages[i].padding = 0 /\ pimages[i].offsetX = 0 /\ pimages[i].offsetY = 0) =>
        LET byWidth == Frac(pbox.width, WidthSum(pimages))
            byHeight == Frac(pbox.height, HeightMax(pimages))
            s == IF FLe(byWidth, byHeight) THEN byWidth ELSE byHeight
        IN /\ Len(prequests) = Len(pimages)
           /\ \A i \in DOMAIN pimages :
                 \E n \in DOMAIN prequests :
                    /\ prequests[n].url = pimages[i].url
                    /\ FEq(prequests[n].width, FMul(Frac(pimages[i].width, 1), s))
                    /\ FEq(prequests[n].height, FMul(Frac(pimages[i].height, 1), s))
                    /\ WithinBox(prequests[n], pbox)

\* C19 witness: two images of different sizes were packed into a box that the
\* height binds, at a scale other than 1
C19_Witness ==
    /\ ppc = "done"
    /\ Len(pimages) = 2
    /\ \A i \in DOMAIN pimages : pimages[i].padding = 0 /\ pimages[i].offsetX = 0
    /\ pimages[1].width = 2 /\ pimages[1].height = 2
    /\ pimages[2].width = 1 /\ pimages[2].height = 1
    /\ pbox.width = 3 /\ pbox.height = 1
    /\ Len(prequests) = 2
    /\ FEq(prequests[1].width, Frac(1, 2)) /\ FEq(prequests[2].width, Frac(1, 1))

(***************************************************************************)
(* Properties of the column markers (Spec)                                 *)
(***************************************************************************)
\* the column marker paragraphs of the stream since the last slide boundary
MarkersOfCurrentSlide ==
    LET breaks == {i \in 2..Len(stream) : stream[i] = "hr"}
        from == IF breaks = {} THEN 0 ELSE CHOOSE i \in breaks : \A j \in breaks : j <= i
    IN Cardinality({i \in (from + 1)..Len(stream) : stream[i] = "paragraph_open.column"})

\* the context holds content that endSlide seals as a body region
HoldsContent(c) ==
    \/ c.images # <<>>
    \/ c.videos # <<>>
    \/ (c.text # Undefined /\ \E i \in DOMAIN c.text.rawText :
                                  c.text.rawText[i] \notin WhiteSpace)

WordTok(word) == [Tok("text") EXCEPT !.content = word]

\* the tokens of "# Title\nhello\n\n{.column}\n\nworld\n"
ColumnExampleTokens ==
    << [Tok("heading_open") EXCEPT !.tag = "h1"],
       [Tok("inline") EXCEPT !.children = <<WordTok(<<"T", "i", "t", "l", "e">>)>>],
       [Tok("heading_close") EXCEPT !.tag = "h1"],
       [Tok("paragraph_open") EXCEPT !.tag = "p"],
       [Tok("inline") EXCEPT !.children = <<WordTok(<<"h", "e", "l", "l", "o">>)>>],
       [Tok("paragraph_close") EXCEPT !.tag = "p"],
       [Tok("paragraph_open") EXCEPT !.tag = "p", !.class = "column"],
       Tok("inline"),
       [Tok("paragraph_close") EXCEPT !.tag = "p"],
       [Tok("paragraph_open") EXCEPT !.tag = "p"],
       [Tok("inline") EXCEPT !.children = <<WordTok(<<"w", "o", "r", "l", "d">>)>>],
       [Tok("paragraph_close") EXCEPT !.tag = "p"] >>

\* the step is the rule of a column marker's paragraph_open
ColumnMarkerStep ==
    /\ index' = index + 1
    /\ token'.type = "paragraph_open" /\ hasClass(token', "column")
    /\ pc' = "compiling"

\* the step is the paragraph_close of a column marker that held no inline content
EmptyMarkerCloseStep ==
    /\ index' = index + 1
    /\ token'.type = "paragraph_close"
    /\ context.markerParagraph
    /\ token.type = "inline" /\ token.children = <<>>
    /\ pc' = "compiling"

\* the step is context.done() at the end of the stream
DoneStep == pc = "compiling" /\ pc' = "done"

C20_MediaWitness ==
    /\ pc = "done"
    /\ Len(returned.slides) = 1
    /\ Len(returned.slides[1].bodies) = 2
    /\ Len(returned.slides[1].bodies[1].images) = 1
    /\ Len(returned.slides[1].bodies[1].videos) = 1

(***************************************************************************)
(* Speaker notes: fullTokenRules['html_block'] and the calls it nests      *)
(*                                                                         *)
(* The calls of processTokens and of the inline loop that are running make *)
(* a stack of frames.  A frame of kind "stream" is the call extractSlides  *)
(* makes, a frame of kind "notes" is the call html_block makes on the      *)
(* tokens of a comment with its subContext, and a frame of kind "inline"   *)
(* is the loop over token.children, which works on the context of the      *)
(* nearest frame below that owns one.  A notes frame also tracks the notes  *)
(* object of the caller's slide (notes) and whether subContext.text still  *)
(* is that very object (shared), since what a rule appends to the shared   *)
(* object is appended to the caller's notes at once.                       *)
(***************************************************************************)
MaxBlocks == 2     \* blocks of a document with speaker notes

Frame(kind, tokens, c) ==
    [kind |-> kind, tokens |-> tokens, i |-> 1, context |-> c,
     notes |-> Undefined, shared |-> FALSE]

\* the frame whose context the running call works on
Owner(stack) ==
    CHOOSE k \in DOMAIN stack :
        /\ stack[k].kind # "inline"
        /\ \A j \in DOMAIN stack : j > k => stack[j].kind = "inline"

\* the number of html_block calls that are running
NotesDepth(stack) == Cardinality({k \in DOMAIN stack : stack[k].kind = "notes"})

\* the object context.text names once the part of a rule that precedes a
\* startTextBlock or an endSlide has run (endStyle writes to it in place)
TextBeforeReplace(rules, tok, c) ==
    IF rules = "fullTokenRules" /\ tok.type \in {"heading_close", "td_close", "th_close"}
    THEN endStyle(c).text
    ELSE c.text

\* a subContext that never carries the notes forward
SubContextFresh(c) == startTextBlock(NewContext)

\* html_block: `new Context(context.css)`, then the notes carried forward or a
\* fresh text block
SubContext(c) ==
    IF c.currentSlide.notes # Undefined
    THEN [NewContext EXCEPT !.text = c.currentSlide.notes]
    ELSE startTextBlock(NewContext)

\* html_block after processTokens returned: the notes of the caller's slide
\* (frame.notes is the object it held, with what was appended to it in place)
NotesAfter(frame) ==
    IF /\ frame.context.text # Undefined
       /\ Len(Trim(frame.context.text.rawText)) # 0
    THEN frame.context.text
    ELSE frame.notes

(***************************************************************************)
(* Inputs of SpecNotes: documents of paragraphs, headings and comments     *)
(***************************************************************************)
ParagraphOf(kids) ==
    << [Tok("paragraph_open") EXCEPT !.tag = "p"],
       [Tok("inline") EXCEPT !.children = kids],
       [Tok("paragraph_close") EXCEPT !.tag = "p"] >>

HeadingOf(kids) ==
    << [Tok("heading_open") EXCEPT !.tag = "h1"],
       [Tok("inline") EXCEPT !.children = kids],
       [Tok("heading_close") EXCEPT !.tag = "h1"] >>

NoteTok == [Tok("text") EXCEPT !.content = <<"n">>]

\* <!-- x --> met as an inline element
CommentTok(tokens) == [Tok("html_inline") EXCEPT !.node = "#comment", !.notes = tokens]

\* <!-- ... --> met as a block; `notes` is parseMarkdown(match[1])
HtmlBlockTok(tokens) == [Tok("html_block") EXCEPT !.node = "#comment", !.notes = tokens]

\* a block of HTML that is no comment
DivTok == [Tok("html_block") EXCEPT !.node = "div"]

ListOf(kids) ==
    << [Tok("bullet_list_open") EXCEPT !.tag = "ul"],
       [Tok("list_item_open") EXCEPT !.tag = "li"] >>
    \o ParagraphOf(kids) \o
    << [Tok("list_item_close") EXCEPT !.tag = "li"],
       [Tok("bullet_list_close") EXCEPT !.tag = "ul"] >>

\* what a comment holds: nothing; a paragraph; emphasised text; a list; a
\* heading; a heading with a comment nested in it; a paragraph with a comment
\* nested before an image; an image; a video; a paragraph, a thematic break and
\* a paragraph; a table; a column marker and a paragraph
NotesContents ==
    { <<>>,
      ParagraphOf(<<NoteTok>>),
      ParagraphOf(<<Tok("em_open"), NoteTok, Tok("em_close")>>),
      ListOf(<<NoteTok>>),
      HeadingOf(<<NoteTok>>),
      HeadingOf(<<NoteTok, CommentTok(ParagraphOf(<<TextTok>>)), NoteTok>>),
      ParagraphOf(<<NoteTok, CommentTok(ParagraphOf(<<TextTok>>)), ImageTok>>),
      ParagraphOf(<<ImageTok>>),
      ParagraphOf(<<VideoTok>>),
      ParagraphOf(<<NoteTok>>) \o <<Tok("hr")>> \o ParagraphOf(<<TextTok>>),
      TableTokens,
      << [Tok("paragraph_open") EXCEPT !.tag = "p", !.class = "column"],
         [Tok("inline") EXCEPT !.children = <<>>],
         [Tok("paragraph_close") EXCEPT !.tag = "p"] >> \o ParagraphOf(<<NoteTok>>) }

\* the blocks of a document: a comment block, a comment inside a paragraph, a
\* paragraph, a title, a slide separator, a block of other HTML
NotesBlocks ==
    { <<HtmlBlockTok(n)>> : n \in NotesContents }
    \cup { ParagraphOf(<<TextTok, CommentTok(n)>>) :
               n \in {ParagraphOf(<<NoteTok>>), HeadingOf(<<NoteTok>>)} }
    \cup { ParagraphOf(<<TextTok>>), HeadingOf(<<TextTok>>), <<Tok("hr")>>, <<DivTok>> }

RECURSIVE Flatten(_)
Flatten(blocks) == IF blocks = <<>> THEN <<>> ELSE Head(blocks) \o Flatten(Tail(blocks))

NotesDocuments == { Flatten(d) : d \in SeqsUpTo(NotesBlocks, MaxBlocks) }

NInit ==
    /\ nstack \in { <<Frame("stream", d, NewContext)>> : d \in NotesDocuments }
    /\ nruleSet = "fullTokenRules"
    /\ npc = "compiling"
    /\ nlog = <<>>

NotesInit == CIdle /\ LIdle /\ GIdle /\ KIdle /\ PIdle /\ NInit /\ SIdle

\* the frame and the token the running call is at
NTop == nstack[Len(nstack)]

NTok == NTop.tokens[NTop.i]

NAtToken == npc = "compiling" /\ NTop.i <= Len(NTop.tokens)

NAdvanced == [nstack EXCEPT ![Len(nstack)].i = @ + 1]

NLogged(rules) ==
    Append(nlog, [type |-> NTok.type, depth |-> NotesDepth(nstack), rules |-> rules])

\* the token is handed to fullTokenRules['html_block']: by processMarkdownToken
\* when the active rule set has that rule, by html_inline for a comment node
CallsHtmlBlock(tok) ==
    \/ tok.type = "html_block" /\ nruleSet = "fullTokenRules"
    \/ tok.type = "html_inline" /\ tok.node = "#comment"

\* processTokens skips a leading hr
SkippedHr == NTop.kind # "inline" /\ NTok.type = "hr" /\ NTop.i = 1

\* processMarkdownToken on a token other than inline and comment: the rule of the
\* active rule set on the context of the running call
NToken ==
    /\ NAtToken
    /\ ~CallsHtmlBlock(NTok)
    /\ NTok.type # "inline"
    /\ LET k == Owner(nstack)
           c == nstack[k].context
           c2 == IF SkippedHr THEN c ELSE processMarkdownToken(nruleSet, NTok, c)
           \* context.text is the object it was before the rule ran
           sameText == c2.text # Undefined /\ IsPrefix(c.text.rawText, c2.text.rawText)
       IN IF c2 = Thrown
          THEN /\ npc' = "error"
               /\ nstack' = nstack
          ELSE /\ npc' = npc
               /\ nstack' =
                    [NAdvanced EXCEPT
                        ![k].context = c2,
                        ![k].notes = IF ~nstack[k].shared THEN @
                                     ELSE IF sameText THEN c2.text
                                     ELSE TextBeforeReplace(nruleSet, NTok, c),
                        ![k].shared = @ /\ sameText]
    /\ nlog' = IF SkippedHr THEN nlog ELSE NLogged(nruleSet)
    /\ UNCHANGED <<nruleSet, cvars, lvars, gvars, kvars, pvars, svars>>

\* fullTokenRules['html_block'] up to its call of processTokens
HtmlBlock ==
    /\ NAtToken
    /\ CallsHtmlBlock(NTok)
    /\ LET c == nstack[Owner(nstack)].context
       IN IF \/ c.currentSlide = Undefined       \* assert(context.currentSlide)
             \/ NTok.node # "#comment"           \* Unsupported HTML block
          THEN /\ npc' = "error"
               /\ UNCHANGED <<nstack, nruleSet>>
          ELSE /\ npc' = npc
               /\ nruleSet' = "inlineTokenRules"
               /\ nstack' = Append(NAdvanced,
                                [Frame("notes", NTok.notes, SubContext(c)) EXCEPT
                                    !.notes = c.currentSlide.notes,
                                    !.shared = c.currentSlide.notes # Undefined])
    /\ nlog' = NLogged(nruleSet)
    /\ UNCHANGED <<cvars, lvars, gvars, kvars, pvars, svars>>

\* fullTokenRules['html_block'] once processTokens has returned
HtmlBlockReturn ==
    /\ npc = "compiling"
    /\ NTop.kind = "notes"
    /\ NTop.i > Len(NTop.tokens)
    /\ LET below == SubSeq(nstack, 1, Len(nstack) - 1)
       IN nstack' = [below EXCEPT ![Owner(below)].context.currentSlide.notes =
                                      NotesAfter(NTop)]
    /\ nruleSet' = "fullTokenRules"
    /\ UNCHANGED <<npc, nlog, cvars, lvars, gvars, kvars, pvars, svars>>

\* inlineTokenRules['inline']: the loop over token.children starts
NInline ==
    /\ NAtToken
    /\ NTok.type = "inline"
    /\ nstack' = Append(NAdvanced, Frame("inline", NTok.children, Undefined))
    /\ nlog' = NLogged(nruleSet)
    /\ UNCHANGED <<nruleSet, npc, cvars, lvars, gvars, kvars, pvars, svars>>

\* the loop over token.children is through
NInlineReturn ==
    /\ npc = "compiling"
    /\ NTop.kind = "inline"
    /\ NTop.i > Len(NTop.tokens)
    /\ nstack' = SubSeq(nstack, 1, Len(nstack) - 1)
    /\ UNCHANGED <<nruleSet, npc, nlog, cvars, lvars, gvars, kvars, pvars, svars>>

\* extractSlides: processTokens returned, context.done()
NDone ==
    /\ npc = "compiling"
    /\ NTop.kind = "stream"
    /\ NTop.i > Len(NTop.tokens)
    /\ nstack' = [nstack EXCEPT ![1].context = done(@)]
    /\ npc' = "done"
    /\ UNCHANGED <<nruleSet, nlog, cvars, lvars, gvars, kvars, pvars, svars>>

NotesNext == NToken \/ HtmlBlock \/ HtmlBlockReturn \/ NInline \/ NInlineReturn \/ NDone

SpecNotes == NotesInit /\ [][NotesNext]_vars

(***************************************************************************)
(* Properties of SpecNotes                                                 *)
(***************************************************************************)
\* the html_block calls that are running
NotesFrames == {k \in DOMAIN nstack : nstack[k].kind = "notes"}

\* C21: while the tokens of a notes comment are compiled, a comment nested in the
\* notes included, every token is looked up in inlineTokenRules and the active
\* rule set is inlineTokenRules; the subContext of the notes gets no image, no
\* video, no table, no title and no sealed slide
C21_NotesUseInlineRulesOnly ==
    /\ \A i \in DOMAIN nlog : nlog[i].depth > 0 => nlog[i].rules = "inlineTokenRules"
    /\ NotesFrames # {} => nruleSet = "inlineTokenRules"
    /\ \A k \in NotesFrames :
          LET c == nstack[k].context
          IN /\ c.images = <<>>
             /\ c.videos = <<>>
             /\ c.slides = <<>>
             /\ c.currentSlide # Undefined
             /\ c.currentSlide.title = Undefined
             /\ c.currentSlide.tables = <<>>
             /\ c.currentSlide.backgroundImage = Undefined

RECURSIVE compileAlone(_, _, _)
\* processTokens on the tokens of a comment from the index on, as html_block runs
\* it on a subContext: s holds the context and the rule set in force (a comment
\* nested in the tokens leaves fullTokenRules behind and the text alone)
compileAlone(tokens, i, s) ==
    IF i > Len(tokens) \/ s.context = Thrown THEN s
    ELSE LET tok == tokens[i]
         IN compileAlone(tokens, i + 1,
                IF tok.type = "hr" /\ i = 1 THEN s
                ELSE IF tok.type = "inline" THEN compileAlone(tok.children, 1, s)
                ELSE IF tok.type = "html_inline" /\ tok.node = "#comment"
                THEN [s EXCEPT !.rules = "fullTokenRules"]
                ELSE [s EXCEPT !.context = processMarkdownToken(s.rules, tok, @)])

\* the text a comment compiles to when its slide has no notes yet
TextAlone(tokens) ==
    LET s == compileAlone(tokens, 1, [context |-> startTextBlock(NewContext),
                                      rules |-> "inlineTokenRules"])
    IN IF s.context = Thrown \/ s.context.text = Undefined THEN EmptyText
       ELSE s.context.text

\* a run or a list marker moved by n characters
Shifted(r, n) == [r EXCEPT !.start = @ + n, !.end = @ + n]

ShiftedAll(rs, n) == [i \in DOMAIN rs |-> Shifted(rs[i], n)]

\* runs without the history field of the model
Plain(rs) == [i \in DOMAIN rs |-> [start |-> rs[i].start, end |-> rs[i].end,
                                   payload |-> rs[i].payload]]

\* text b appended to text a
Concatenated(a, b) ==
    [rawText |-> a.rawText \o b.rawText,
     textRuns |-> Plain(a.textRuns) \o Plain(ShiftedAll(b.textRuns, Len(a.rawText))),
     listMarkers |-> a.listMarkers \o ShiftedAll(b.listMarkers, Len(a.rawText))]

SameText(a, b) ==
    /\ a.rawText = b.rawText
    /\ Plain(a.textRuns) = b.textRuns
    /\ a.listMarkers = b.listMarkers

\* the slide of the stream an html_block call was made for
CallerSlide(stack) == stack[1].context.currentSlide

\* an html_block call made for a slide that has notes returns
LaterBlockReturns ==
    /\ npc = "compiling"
    /\ Len(nstack) = 2
    /\ NTop.kind = "notes"
    /\ NTop.i > Len(NTop.tokens)
    /\ CallerSlide(nstack).notes # Undefined

\* C22: when a comment block of a slide that has notes from earlier blocks has
\* been compiled, the notes of the slide are the earlier notes followed by the
\* text the block compiles to: the old raw text, runs and list markers unchanged,
\* then the text, runs and list markers of the block, moved by the length of
\* the earlier notes
C22_LaterBlockIsAppended ==
    [][LaterBlockReturns =>
          SameText(CallerSlide(nstack').notes,
                   Concatenated(CallerSlide(nstack).notes, TextAlone(NTop.tokens)))]_vars

(***************************************************************************)
(* Tables: the compiler on documents with a table, run by the same steps   *)
(* as SpecNotes.  A table is drawn by the number of cells of each row; the *)
(* tokenizer emits rows as long as the header row, the rules take any.     *)
(***************************************************************************)
MaxRows == 3       \* rows of a table
MaxCells == 2      \* cells of a row

CellOf(tag) ==
    << [Tok(IF tag = "th" THEN "th_open" ELSE "td_open") EXCEPT !.tag = tag],
       [Tok("inline") EXCEPT !.children = <<TextTok>>],
       [Tok(IF tag = "th" THEN "th_close" ELSE "td_close") EXCEPT !.tag = tag] >>

RECURSIVE CellsOf(_, _)
CellsOf(tag, n) == IF n = 0 THEN <<>> ELSE CellOf(tag) \o CellsOf(tag, n - 1)

RowOf(tag, n) ==
    << [Tok("tr_open") EXCEPT !.tag = "tr"] >> \o CellsOf(tag, n)
    \o << [Tok("tr_close") EXCEPT !.tag = "tr"] >>

RECURSIVE RowsOf(_, _)
\* the rows of a table, the first one of header cells
RowsOf(shape, r) ==
    IF r > Len(shape) THEN <<>>
    ELSE RowOf(IF r = 1 THEN "th" ELSE "td", shape[r]) \o RowsOf(shape, r + 1)

TableOf(shape) ==
    << [Tok("table_open") EXCEPT !.tag = "table"], Tok("thead_open") >>
    \o RowsOf(shape, 1)
    \o << Tok("tbody_close"), [Tok("table_close") EXCEPT !.tag = "table"] >>

TableShapes == UNION { [1..n -> 1..MaxCells] : n \in 1..MaxRows }

\* a table, under a title or not, followed by nothing, by a comment block or by
\* a second slide with a table of its own
TableDocuments ==
    { pre \o TableOf(shape) \o post :
        shape \in TableShapes,
        pre \in { <<>>, HeadingOf(<<TextTok>>) },
        post \in { <<>>, <<HtmlBlockTok(ParagraphOf(<<NoteTok>>))>>,
                   <<Tok("hr")>> \o TableOf(<<1>>) } }

TableInit ==
    /\ CIdle /\ LIdle /\ GIdle /\ KIdle /\ PIdle /\ SIdle
    /\ nstack \in { <<Frame("stream", d, NewContext)>> : d \in TableDocuments }
    /\ nruleSet = "fullTokenRules"
    /\ npc = "compiling"
    /\ nlog = <<>>

SpecTable == TableInit /\ [][NotesNext]_vars

\* the context extractSlides compiles into
MainContext == nstack[1].context

RECURSIVE LongestRow(_)
\* Math.max over the lengths of the rows, 0 for no row
LongestRow(cells) ==
    IF cells = <<>> THEN 0 ELSE Max(Len(Head(cells)), LongestRow(Tail(cells)))

GridShape(t) == t.rows = Len(t.cells) /\ t.columns = LongestRow(t.cells)

\* the slides compiled so far, the one in progress included
SlidesSoFar ==
    MainContext.slides \o
        (IF MainContext.currentSlide = Undefined THEN <<>>
         ELSE <<MainContext.currentSlide>>)

\* the requests appendCreateTableRequests makes for a slide with one table
TableRequests(slide) ==
    appendCreateTableRequests([slide |-> [slide |-> slide, objectId |-> uuid(1)],
                               requests |-> <<>>, thrown |-> FALSE]).requests

\* every cell location of the requests lies in the grid the createTable request
\* declares (cell indices count from 0)
CellsInsideGrid(requests) ==
    /\ requests[1].kind = "createTable"
    /\ \A i \in DOMAIN requests :
          "at" \in DOMAIN requests[i] =>
              /\ requests[i].at.rowIndex \in 0..(requests[1].rows - 1)
              /\ requests[i].at.columnIndex \in 0..(requests[1].columns - 1)

\* C23: the table being accumulated and every table stored on a slide has as its
\* row count the number of rows accumulated and as its column count the length
\* of its longest row, and the requests generated for a stored table address
\* only cells inside the rows x columns grid of the createTable request
C23_TableGridCoversCells ==
    /\ MainContext.table # Undefined => GridShape(MainContext.table)
    /\ \A i \in DOMAIN SlidesSoFar : \A j \in DOMAIN SlidesSoFar[i].tables :
          /\ GridShape(SlidesSoFar[i].tables[j])
          /\ Len(SlidesSoFar[i].tables) = 1 =>
                CellsInsideGrid(TableRequests(SlidesSoFar[i]))

\* a table whose rows differ in length, the longest not the last, is stored and
\* its cells are addressed
C23_Witness ==
    /\ npc = "done"
    /\ \E i \in DOMAIN MainContext.slides :
          /\ Len(MainContext.slides[i].tables) = 1
          /\ LET t == MainContext.slides[i].tables[1]
             IN /\ t.rows = 3
                /\ Len(t.cells[1]) = 2
                /\ Len(t.cells[3]) = 1
                /\ Cardinality({k \in DOMAIN TableRequests(MainContext.slides[i]) :
                        TableRequests(MainContext.slides[i])[k].kind = "insertText"}) = 5

(***************************************************************************)
(* Images: the compiler on documents of image paragraphs, run by the same  *)
(* steps as SpecNotes                                                      *)
(***************************************************************************)
MaxImageBlocks == 3    \* blocks of a document of images

BackgroundTok(src) == [Tok("image") EXCEPT !.src = src, !.class = "background"]

PlainImageTok(src) == [Tok("image") EXCEPT !.src = src]

\* a paragraph with a background image, with a body image (remote or a local
\* path) or with a body image before a background image; a slide separator; a
\* comment whose notes hold a background image
ImageBlocks ==
    { ParagraphOf(<<BackgroundTok("https://b1.png")>>),
      ParagraphOf(<<BackgroundTok("https://b2.png")>>),
      ParagraphOf(<<PlainImageTok("https://i.png")>>),
      ParagraphOf(<<PlainImageTok("i.png"), BackgroundTok("https://b3.png")>>),
      <<Tok("hr")>>,
      <<HtmlBlockTok(ParagraphOf(<<BackgroundTok("https://n.png")>>))>> }

ImageDocuments == { Flatten(d) : d \in SeqsUpTo(ImageBlocks, MaxImageBlocks) }

ImageInit ==
    /\ CIdle /\ LIdle /\ GIdle /\ KIdle /\ PIdle /\ SIdle
    /\ nstack \in { <<Frame("stream", d, NewContext)>> : d \in ImageDocuments }
    /\ nruleSet = "fullTokenRules"
    /\ npc = "compiling"
    /\ nlog = <<>>

SpecImage == ImageInit /\ [][NotesNext]_vars

\* the top-level tokens of the stream processed so far
TokensDone == SubSeq(nstack[1].tokens, 1, nstack[1].i - 1)

\* where the slide in progress (the last slide, once done) starts in the stream
SlideStart(tokens) ==
    LET seps == {i \in DOMAIN tokens : tokens[i].type = "hr" /\ i > 1}
    IN IF seps = {} THEN 1 ELSE 1 + CHOOSE i \in seps : \A j \in seps : j <= i

RECURSIVE ImageToksOf(_)
\* the image tokens among the children of the tokens, in markup order
ImageToksOf(tokens) ==
    IF tokens = <<>> THEN <<>>
    ELSE SelectSeq(Head(tokens).children, LAMBDA t : t.type = "image")
         \o ImageToksOf(Tail(tokens))

\* the image tokens of the slide in progress that have been processed
SlideImageToks ==
    ImageToksOf(SubSeq(TokensDone, SlideStart(TokensDone), Len(TokensDone)))

BackgroundToks == SelectSeq(SlideImageToks, LAMBDA t : t.class = "background")

BodyImageToks == SelectSeq(SlideImageToks, LAMBDA t : t.class # "background")

\* the slide in progress, the last slide once the stream is done
LatestSlide ==
    IF MainContext.currentSlide # Undefined THEN MainContext.currentSlide
    ELSE MainContext.slides[Len(MainContext.slides)]

\* the images of the body regions of the slide, those not yet in a body included
BodyImages ==
    LET RECURSIVE Of(_)
        Of(bodies) == IF bodies = <<>> THEN <<>>
                      ELSE Head(bodies).images \o Of(Tail(bodies))
    IN Of(LatestSlide.bodies) \o MainContext.images

\* C24: between two tokens of the stream and once the stream is done, the
\* background image of the slide is the image of the last image token of class
\* background processed for the slide (none: undefined), whatever body images
\* came before or after it, and the images of the body regions are the images
\* of the other image tokens, in order: no background image is among them
C24_BackgroundIsLastMarked ==
    (Len(nstack) = 1 /\ npc # "error") =>
        /\ IF BackgroundToks = <<>>
           THEN LatestSlide.backgroundImage = Undefined
           ELSE /\ LatestSlide.backgroundImage # Undefined
                /\ LatestSlide.backgroundImage.url =
                       fileUrl(BackgroundToks[Len(BackgroundToks)].src)
        /\ Len(BodyImages) = Len(BodyImageToks)
        /\ \A i \in DOMAIN BodyImages : BodyImages[i].url = fileUrl(BodyImageToks[i].src)
        /\ \A i \in DOMAIN BodyImages : \A j \in DOMAIN BackgroundToks :
              BodyImages[i].url # fileUrl(BackgroundToks[j].src)

\* a slide with two background images and a body image after them is compiled
C24_Witness ==
    /\ npc = "done"
    /\ Len(MainContext.slides) = 1
    /\ Len(BackgroundToks) = 2
    /\ BackgroundToks[1].src # BackgroundToks[2].src
    /\ SlideImageToks[Len(SlideImageToks)].class # "background"
    /\ LatestSlide.backgroundImage.url = BackgroundToks[2].src

(***************************************************************************)
(* Properties of SpecGen: local images, capability limits, the frame       *)
(***************************************************************************)
\* an image that is a local file or will be one once generated
LocalOrGenerated(image) == image.url \in {"", "file:"}

\* C25: in a run without useFileio no call of uploadLocalImage is ever made; when
\* an image of the deck is a local file or a generated image, no batch is built
\* or sent, the run is never resolved and never gets past the upload stage, and
\* it is rejected once every image promise of the upload stage has settled
C25_NoUploadWithoutOptIn ==
    (gpc \notin {"idle", "start"} /\ ~gallowUpload) =>
        /\ ~Logged("uploadLocalImage")
        /\ \A i \in DOMAIN gimages : gimages[i].url = "https:" => gimages[i].type = ""
        /\ (\E i \in DOMAIN gimages : LocalOrGenerated(gimages[i])) =>
              /\ gpc \in Range(ImageStages)
              /\ gresult # "resolved"
              /\ gbatch = Undefined
              /\ ~Logged("batchUpdateA") /\ ~Logged("batchUpdateB")
              /\ (gpc = "uploadLocalImages" /\ gpending = {}) => gresult = "rejected"

\* a run without useFileio over a remote image and a generated image was
\* rejected in the upload stage, the remote image through all three stages
C25_Witness ==
    /\ ~gallowUpload
    /\ gpc = "uploadLocalImages"
    /\ gpending = {}
    /\ gresult = "rejected"
    /\ Len(gimages) = 2
    /\ gimages[1].url = "https:" /\ gimages[1].settled = 3
    /\ gimages[2].type = "svg" /\ gimages[2].url = "file:" /\ gimages[2].settled = 2

(***************************************************************************)
(* generateFromMarkdown on decks with content: the steps of SpecGen on     *)
(* slides with text, tables, videos, images and notes, and on a document   *)
(* that has the layouts they match and pages of its own                    *)
(***************************************************************************)
\* a titled slide with a body; a slide with one table; the slide compiled from
\* two tables; a slide whose body holds two videos; a slide with a background
\* image, an image in its body and notes
RunSlideInputs ==
    { [slide |-> s, objectId |-> <<>>] :
        s \in { [EmptySlide EXCEPT !.title = TextWith(<<"T">>, FALSE),
                                   !.bodies = << [text |-> ListedText, images |-> <<>>,
                                                  videos |-> <<>>] >>],
                [EmptySlide EXCEPT !.tables = <<TableInput>>],
                TwoTablesCompiled.slides[1],
                [EmptySlide EXCEPT !.bodies =
                    << [text |-> TextWith(<<"\n">>, FALSE), images |-> <<>>,
                        videos |-> <<VideoInput("v1"), VideoInput("v2")>>] >>],
                [EmptySlide EXCEPT !.backgroundImage = ImageInput("https://bg"),
                                   !.notes = TextWith(<<"n", "\n">>, FALSE),
                                   !.bodies =
                    << [text |-> TextWith(<<"\n">>, FALSE),
                        images |-> <<ImageInput("https://i")>>,
                        videos |-> <<VideoInput("v1")>>] >>] } }

\* a page the document holds before the run, with placeholders of its own
OldPage(j) ==
    [objectId |-> <<"page", j>>, speakerNotesObjectId |-> <<"oldnotes", j>>,
     pageElements |-> << Placeholder("TITLE", MaxSlides + 1 + j),
                         Placeholder("BODY", MaxSlides + 1 + j) >>]

RunRemoteInputs ==
    { [presentationId |-> "p", pageSize |-> [width |-> 16, height |-> 9],
       layouts |-> ls, slides |-> [j \in 1..np |-> OldPage(j)], filled |-> {}] :
        ls \in { << LayoutObject("BLANK", 1), LayoutObject("TITLE_AND_BODY", 2) >>,
                 << LayoutObject("BLANK", 1) >> },
        np \in 0..MaxPages }

RunInit ==
    /\ CIdle /\ LIdle /\ KIdle /\ PIdle /\ NIdle /\ SIdle
    /\ gpc = "start"
    /\ gresult = "pending"
    /\ gslides \in SeqsUpTo(RunSlideInputs, MaxSlides) \ {<<>>}
    /\ gallowUpload = FALSE
    /\ gimages \in { <<>>, <<[url |-> "https:", type |-> "", probed |-> FALSE,
                             settled |-> 0]>> }
    /\ gpending = {}
    /\ gremote \in RunRemoteInputs
    /\ gpresentation = gremote
    /\ gbatch = Undefined
    /\ glog = <<>>

SpecRun == RunInit /\ [][GenNext]_vars

\* a slide asks for more than the service can take: more than one table, or
\* more than one video in a body region
OverLimit(slide) ==
    \/ Len(slide.tables) > 1
    \/ \E i \in DOMAIN slide.bodies : Len(slide.bodies[i].videos) > 1

\* C29: when a slide of the deck is over a capability limit, no batch reaches the
\* document: neither the Phase A batch nor the Phase B batch is sent
C29_LimitFailsBeforeAnyBatch ==
    (\E i \in DOMAIN gslides : OverLimit(gslides[i].slide)) =>
        /\ ~Logged("batchUpdateA")
        /\ ~Logged("batchUpdateB")
        /\ gresult # "resolved"

\* C29, what the code does: the limit is raised by populateSlides, once the
\* Phase A batch has been applied and the document re-fetched; the Phase B batch
\* is neither built nor sent
C29_LimitFailsAfterPhaseA ==
    (\E i \in DOMAIN gslides : OverLimit(gslides[i].slide)) =>
        /\ ~Logged("batchUpdateB")
        /\ gresult # "resolved"
        /\ (gbatch # Undefined => gbatch.phase # "B")
        /\ (gpc = "populateSlides" /\ gresult = "rejected") =>
              /\ Logged("batchUpdateA")
              /\ CreatedPages \subseteq PageIds(gremote)

\* the pages the document held before the run
OldPageIds == {id \in PageIds(gremote) : id[1] = "page"}

\* the pages Phase A created: the pages of the document whose id a slide of the
\* run carries
RunPages == CreatedPages \cap PageIds(gremote)

\* the placeholders and the notes shape of a set of pages of a document
ShapesOn(presentation, pageIds) ==
    UNION { {p.speakerNotesObjectId} \cup {p.pageElements[k].objectId : k \in DOMAIN p.pageElements} :
            p \in {q \in Range(presentation.slides) : q.objectId \in pageIds} }

\* the elements the requests before the i-th of a batch create
MadeBefore(requests, i) ==
    {requests[j].objectId : j \in {k \in 1..(i - 1) :
        requests[k].kind \in {"createTable", "createVideo"}}}

\* the requests populateSlides has built: the batch it returned, the requests so
\* far while its loop runs
ContentBatch ==
    IF gbatch # Undefined /\ gbatch.phase \in {"populate", "B"} THEN gbatch.requests
    ELSE <<>>

\* C30: every request of the Phase B batch adds content and edits a page Phase A
\* of this run created, a placeholder or the notes shape of such a page, or an
\* element an earlier request of the batch created; none names a page the
\* document held before the run or a shape of such a page, and the service
\* has been asked to edit none of them: the old pages are as they were
C30_PhaseBEditsOnlyNewPages ==
    /\ \A i \in DOMAIN ContentBatch :
          LET r == ContentBatch[i]
          IN /\ r.kind \in {"insertText", "updateTextStyle", "createParagraphBullets",
                            "createTable", "createVideo", "updateVideoProperties",
                            "createImage", "updatePageProperties"}
             /\ Target(r) \in RunPages \cup ShapesOn(gpresentation, RunPages)
                                \cup MadeBefore(ContentBatch, i)
             /\ Target(r) \notin OldPageIds \cup ShapesOn(gpresentation, OldPageIds)
             /\ "pageObjectId" \in DOMAIN r => r.pageObjectId \in RunPages
    /\ gremote.filled \cap (OldPageIds \cup ShapesOn(gremote, OldPageIds)) = {}
    /\ \A j \in 1..Cardinality(OldPageIds) : gremote.slides[j] = OldPage(j)

\* the Phase B batch of a deck of two slides was applied to a document that had
\* a page of its own: text in the placeholders of the first new page, a
\* background, an image, a video and notes on the second
C30_Witness ==
    /\ gpc = "done"
    /\ gresult = "resolved"
    /\ OldPageIds # {}
    /\ Len(gslides) = 2
    /\ Logged("batchUpdateB")
    /\ {<<"TITLE", 1>>, <<"BODY", 1>>, uuid(2), <<"notes", 2>>} \subseteq gremote.filled
    /\ \E i \in DOMAIN gbatch.requests : gbatch.requests[i].kind = "createVideo"

(***************************************************************************)
(* parser/css.ts: updateStyleDefinition.  The repository holds two copies  *)
(* of the file that differ in the fontStyle and fontSize cases; a run      *)
(* starts with either.  A CSS rule is the sequence of its [key, value]     *)
(* entries in the order of Object.entries, a style the function from its   *)
(* property names to their values.                                         *)
(***************************************************************************)
MaxDeclarations == 3    \* declarations of a CSS rule

CssCopies == {"lint", "legacy"}     \* part_007 and src/parser/css.ts

\* _.camelCase of a property name
camelCase(key) ==
    CASE key = "background-color" -> "backgroundColor"
      [] key = "font-weight" -> "fontWeight"
      [] key = "font-style" -> "fontStyle"
      [] key = "font-family" -> "fontFamily"
      [] key = "font-variant" -> "fontVariant"
      [] key = "font-size" -> "fontSize"
      [] key = "text-decoration" -> "textDecoration"
      [] OTHER -> key

\* parseColorString: the colour of a name parse-color knows, undefined otherwise
parseColorString(value) ==
    IF value = "red"
    THEN [opaqueColor |-> [rgbColor |-> [red |-> 1, green |-> 0, blue |-> 0]]]
    ELSE Undefined

\* the characters of the font-size values of the model
Chars(value) ==
    CASE value = "12pt" -> <<"1", "2", "p", "t">>
      [] value = "12px" -> <<"1", "2", "p", "x">>
      [] value = "2em" -> <<"2", "e", "m">>
      [] value = "12" -> <<"1", "2">>
      [] value = "big" -> <<"b", "i", "g">>
      [] OTHER -> <<>>

Digit(ch) ==
    CASE ch = "0" -> 0 [] ch = "1" -> 1 [] ch = "2" -> 2 [] ch = "3" -> 3
      [] ch = "4" -> 4 [] ch = "5" -> 5 [] ch = "6" -> 6 [] ch = "7" -> 7
      [] ch = "8" -> 8 [] ch = "9" -> 9 [] OTHER -> -1

\* match[1] of value.match(/(\d+)(?:pt)?/): the first run of digits of the value,
\* <<>> when the value has no digit (match is null)
FirstDigits(chars) ==
    LET at == {i \in DOMAIN chars : Digit(chars[i]) >= 0}
    IN IF at = {} THEN <<>>
       ELSE LET first == CHOOSE i \in at : \A j \in at : i <= j
                last == CHOOSE i \in at :
                            /\ i >= first
                            /\ \A j \in first..i : j \in at
                            /\ (i + 1) \notin at
            IN SubSeq(chars, first, last)

RECURSIVE parseInt(_)
\* Number.parseInt of a string of digits
parseInt(digits) ==
    IF digits = <<>> THEN 0
    ELSE 10 * parseInt(SubSeq(digits, 1, Len(digits) - 1)) + Digit(digits[Len(digits)])

\* case 'fontSize': the style after it, and whether the function returns from
\* inside the loop (the copy in src/parser/css.ts on a value without a number)
FontSizeCase(copy, value, style) ==
    LET digits == FirstDigits(Chars(value))
    IN IF digits = <<>>
       THEN [style |-> style, returns |-> copy = "legacy"]
       ELSE [style |-> Extend(style, [fontSize |-> [magnitude |-> parseInt(digits),
                                                    unit |-> "PT"]]),
             returns |-> FALSE]

\* the switch of updateStyleDefinition on a normalized key other than fontSize
StyleCase(copy, key, value, style) ==
    CASE key = "color" -> Extend(style, [foregroundColor |-> parseColorString(value)])
      [] key = "backgroundColor" ->
            Extend(style, [backgroundColor |-> parseColorString(value)])
      [] key = "fontWeight" ->
            IF value = "bold" THEN Extend(style, [bold |-> TRUE]) ELSE style
      [] key = "fontStyle" ->
            IF value = "italic" THEN Extend(style, [italic |-> TRUE])
            \* the second `case 'fontStyle'` of the legacy copy is never reached
            ELSE IF copy = "legacy" THEN style
            ELSE IF value = "underline" THEN Extend(style, [underline |-> TRUE])
            ELSE IF value = "line-through" THEN Extend(style, [strikethrough |-> TRUE])
            ELSE style
      [] key = "fontFamily" -> Extend(style, [fontFamily |-> value])
      [] key = "fontVariant" ->
            IF value = "small-caps" THEN Extend(style, [smallCaps |-> TRUE]) ELSE style
      [] OTHER -> style                            \* Ignoring CSS rule

\* the declarations of the rules of the model
Declarations ==
    { [key |-> "color", value |-> "red"],
      [key |-> "font-weight", value |-> "bold"],
      [key |-> "font-style", value |-> "italic"],
      [key |-> "font-style", value |-> "underline"],
      [key |-> "text-decoration", value |-> "underline"],
      [key |-> "text-decoration", value |-> "line-through"],
      [key |-> "font-family", value |-> "Arial"],
      [key |-> "font-size", value |-> "12pt"],
      [key |-> "font-size", value |-> "12px"],
      [key |-> "font-size", value |-> "2em"],
      [key |-> "font-size", value |-> "12"],
      [key |-> "font-size", value |-> "big"] }

\* the rules: a key names one declaration
CssRules ==
    { r \in SeqsUpTo(Declarations, MaxDeclarations) :
        \A i, j \in DOMAIN r : i # j => r[i].key # r[j].key }

SInit ==
    /\ scss \in { [copy |-> copy, entries |-> r, i |-> 1] :
                     copy \in CssCopies, r \in CssRules }
    /\ sstyle = <<>>
    /\ spc = "running"

CssInit == CIdle /\ LIdle /\ GIdle /\ KIdle /\ PIdle /\ NIdle /\ SInit

\* one turn of the loop over Object.entries(normalizedCss)
StyleEntry ==
    /\ spc = "running"
    /\ scss.i <= Len(scss.entries)
    /\ LET key == camelCase(scss.entries[scss.i].key)
           value == scss.entries[scss.i].value
           sized == FontSizeCase(scss.copy, value, sstyle)
       IN IF key = "fontSize"
          THEN /\ sstyle' = sized.style
               /\ spc' = IF sized.returns THEN "returned undefined" ELSE spc
          ELSE /\ sstyle' = StyleCase(scss.copy, key, value, sstyle)
               /\ spc' = spc
    /\ scss' = [scss EXCEPT !.i = @ + 1]
    /\ UNCHANGED <<cvars, lvars, gvars, kvars, pvars, nvars>>

\* `return style`
StyleReturn ==
    /\ spc = "running"
    /\ scss.i > Len(scss.entries)
    /\ spc' = "returned style"
    /\ UNCHANGED <<scss, sstyle, cvars, lvars, gvars, kvars, pvars, nvars>>

CssNext == StyleEntry \/ StyleReturn

SpecCss == CssInit /\ [][CssNext]_vars

\* the declarations of the rule handed to updateStyleDefinition
RuleEntries == Range(scss.entries)

\* the function has returned, with the style or with undefined
StyleDone == spc # "running"

\* C26: once updateStyleDefinition has returned, a rule containing
\* text-decoration: underline has set the underline property of the style, and
\* a rule containing text-decoration: line-through its strikethrough property.
C26_TextDecorationSetsProperty ==
    StyleDone =>
        /\ [key |-> "text-decoration", value |-> "underline"] \in RuleEntries
              => "underline" \in DOMAIN sstyle /\ sstyle.underline = TRUE
        /\ [key |-> "text-decoration", value |-> "line-through"] \in RuleEntries
              => "strikethrough" \in DOMAIN sstyle /\ sstyle.strikethrough = TRUE

\* a font-size value in another unit or without a number
NotInPoints == {"12px", "2em", "big"}

\* the recognized declaration has been applied to the style
Applied(entry, style) ==
    CASE entry.key = "color" -> "foregroundColor" \in DOMAIN style
      [] entry.key = "font-weight" -> "bold" \in DOMAIN style
      [] entry.key = "font-family" -> "fontFamily" \in DOMAIN style
      [] entry = [key |-> "font-style", value |-> "italic"] -> "italic" \in DOMAIN style
      [] OTHER -> TRUE

\* C27: once updateStyleDefinition has returned, a font-size in points has set
\* the font size, a font-size in another unit or without a number has left it
\* unset, the function has returned the style, and every other recognized
\* declaration of the rule, before or after the font-size, has been applied.
C27_FontSizeOnlyInPoints ==
    StyleDone =>
        /\ [key |-> "font-size", value |-> "12pt"] \in RuleEntries
              => /\ "fontSize" \in DOMAIN sstyle
                 /\ sstyle.fontSize = [magnitude |-> 12, unit |-> "PT"]
        /\ (\E e \in RuleEntries : e.key = "font-size" /\ e.value \in NotInPoints)
              => "fontSize" \notin DOMAIN sstyle
        /\ spc = "returned style"
        /\ \A e \in RuleEntries : Applied(e, sstyle)

(***************************************************************************)
(* Body text among headings and tables: documents of up to MaxBodyBlocks   *)
(* blocks, compiled by the steps of SpecNotes.  Body text is written with  *)
(* the letters p, l and f, titles and table cells with a, notes with n.    *)
(***************************************************************************)
MaxBodyBlocks == 3

BodyLetters == {"p", "l", "f"}

BodyTextTok(letter) == [Tok("text") EXCEPT !.content = <<letter>>]

\* ``` f ``` : a code block that names no language
FenceTok == [Tok("fence") EXCEPT !.tag = "code", !.content = <<"f", "\n">>]

\* a paragraph, a list item, a code block, a title, a table, a slide separator,
\* a comment block
BodyBlocks ==
    { ParagraphOf(<<BodyTextTok("p")>>),
      ListOf(<<BodyTextTok("l")>>),
      <<FenceTok>>,
      HeadingOf(<<TextTok>>),
      TableOf(<<1>>),
      <<Tok("hr")>>,
      <<HtmlBlockTok(ParagraphOf(<<NoteTok>>))>> }

BodyDocuments == { Flatten(d) : d \in SeqsUpTo(BodyBlocks, MaxBodyBlocks) }

BodyInit ==
    /\ CIdle /\ LIdle /\ GIdle /\ KIdle /\ PIdle /\ SIdle
    /\ nstack \in { <<Frame("stream", d, NewContext)>> : d \in BodyDocuments }
    /\ nruleSet = "fullTokenRules"
    /\ npc = "compiling"
    /\ nlog = <<>>

SpecBody == BodyInit /\ [][NotesNext]_vars

\* the body letters of a string, in order
Letters(str) == SelectSeq(str, LAMBDA ch : ch \in BodyLetters)

RECURSIVE ChildLetters(_)
ChildLetters(kids) ==
    IF kids = <<>> THEN <<>> ELSE Letters(Head(kids).content) \o ChildLetters(Tail(kids))

\* the slide a token of the stream belongs to: a separator that is not the
\* first token starts the next one
SlideOf(tokens, i) ==
    1 + Cardinality({j \in 2..i : tokens[j].type = "hr"})

RECURSIVE MarkupLetters(_, _, _)
\* the body text of slide k of the markup, from token i on
MarkupLetters(tokens, i, k) ==
    IF i > Len(tokens) THEN <<>>
    ELSE (IF SlideOf(tokens, i) # k THEN <<>>
          ELSE IF tokens[i].type = "fence" THEN Letters(tokens[i].content)
          ELSE ChildLetters(tokens[i].children))
         \o MarkupLetters(tokens, i + 1, k)

RECURSIVE BodiesLetters(_)
\* the body text of the body regions, in their order
BodiesLetters(bodies) ==
    IF bodies = <<>> THEN <<>>
    ELSE (IF Head(bodies).text = Undefined THEN <<>>
          ELSE Letters(Head(bodies).text.rawText))
         \o BodiesLetters(Tail(bodies))

\* C28: once a document is compiled, the body regions of every slide hold the
\* text of its paragraphs, list items and code blocks, each once and in markup
\* order, wherever its headings and tables stand.
C28_BodyTextIsKept ==
    npc = "done" =>
        \A k \in DOMAIN MainContext.slides :
            BodiesLetters(MainContext.slides[k].bodies)
                = MarkupLetters(nstack[1].tokens, 1, k)

====
